---- MODULE Spec2Model ----
(***************************************************************************)
(* slurmvision: the Inspector (slurm/tools.py), its polling thread         *)
(* SlurmThread, and the parts of the urwid Tui (tui/slurmdash.py) that     *)
(* read and refresh the Inspector's state.                                 *)
(*                                                                         *)
(* Spec and FairSpec run the polling thread against the UI thread's keys   *)
(* and redraws; SpecInit runs Inspector.__init__ over the arguments it may *)
(* be given and the calls on what it built; SpecCancel runs selection and  *)
(* Tui.cancel_selected_jobs over the job list on display.                  *)
(*                                                                         *)
(* Text is a sequence of atoms.  An atom is a string standing for a run of *)
(* characters: " ", "\t", "\r" and "\n" are the whitespace characters,     *)
(* "0xFF" is a byte that is not valid UTF-8, every other atom is a run of  *)
(* printable characters.  A token is a non-empty sequence of atoms.        *)
(***************************************************************************)
EXTENDS Integers, Sequences, FiniteSets, TLC

None == "None"

(***************************************************************************)
(* Bounds of the model.                                                    *)
(***************************************************************************)
\* Refreshes the polling thread starts in a run.
MaxPolls == 2
\* Key presses and alarms the main loop handles in a run.
MaxEvents == 2

(***************************************************************************)
(* str.split("\n"), str.split() and bytes.decode("utf-8")                  *)
(***************************************************************************)
Whitespace == {" ", "\t", "\r", "\n"}

Range(s) == {s[i] : i \in 1..Len(s)}

Min(a, b) == IF a <= b THEN a ELSE b

\* Index of the first atom of s that is in set S, or Len(s) + 1.
FirstIn(s, S) ==
  IF \E i \in 1..Len(s) : s[i] \in S
    THEN CHOOSE i \in 1..Len(s) : s[i] \in S /\ \A j \in 1..(i - 1) : s[j] \notin S
    ELSE Len(s) + 1

\* text.split("\n"): the pieces between the newlines, always at least one.
RECURSIVE split_newline(_)
split_newline(text) ==
  LET i == FirstIn(text, {"\n"})
  IN  IF i > Len(text)
        THEN <<text>>
        ELSE <<SubSeq(text, 1, i - 1)>> \o split_newline(SubSeq(text, i + 1, Len(text)))

\* line.split(): the maximal runs of non-whitespace, none of them empty.
RECURSIVE split_whitespace(_)
split_whitespace(line) ==
  IF line = <<>> THEN <<>>
  ELSE IF line[1] \in Whitespace THEN split_whitespace(Tail(line))
  ELSE LET i == FirstIn(line, Whitespace)
       IN  <<SubSeq(line, 1, i - 1)>> \o split_whitespace(SubSeq(line, i, Len(line)))

\* bytes.decode("utf-8") raises UnicodeDecodeError on an invalid byte.
decode_fails(bytes) == "0xFF" \in Range(bytes)

\* The decoded text of valid bytes: the same atoms, now characters.
decode(bytes) == [i \in 1..Len(bytes) |-> bytes[i]]

(***************************************************************************)
(* Inspector.parse_squeue_output / parse_sinfo_output                      *)
(***************************************************************************)
\* A dict over every header key, the keys past the last token holding the
\* empty string.
zip_dict_padded(header, tokens) ==
  [h \in Range(header) |->
     LET i == CHOOSE i \in 1..Len(header) :
                header[i] = h /\ \A j \in (i + 1)..Len(header) : header[j] # h
     IN  IF i <= Len(tokens) THEN tokens[i] ELSE <<>>]

\* {h: t for h, t in zip(header, tokens)}: zip stops at the shorter sequence,
\* a repeated key keeps its last value.
zip_dict(header, tokens) ==
  LET n == Min(Len(header), Len(tokens))
  IN  [h \in {header[i] : i \in 1..n} |->
         tokens[CHOOSE i \in 1..n : header[i] = h /\ \A j \in (i + 1)..n : header[j] # h]]

\* squeue_output.split("\n"), the last piece kept.
output_lines_all(text) == split_newline(text)

\* squeue_output.split("\n")[:-1]
output_lines(text) ==
  LET all == split_newline(text) IN SubSeq(all, 1, Len(all) - 1)

\* lines[0] raises IndexError when there is no line.
parse_fails(text) == output_lines(text) = <<>>

parse_squeue_output(text) ==
  LET lines  == output_lines(text)
      header == split_whitespace(lines[1])
  IN  [jobs   |-> [k \in 1..(Len(lines) - 1) |->
                     zip_dict(header, split_whitespace(lines[k + 1]))],
       header |-> header]

parse_sinfo_output(text) ==
  LET lines  == output_lines(text)
      header == split_whitespace(lines[1])
  IN  [strs   |-> [k \in 1..(Len(lines) - 1) |->
                     zip_dict(header, split_whitespace(lines[k + 1]))],
       header |-> header]

(***************************************************************************)
(* Inspector.build_s_cmd over an option mapping kept as the sequence of    *)
(* its (flag, argument) items in insertion order.                          *)
(***************************************************************************)
Keys(opts) == {opts[i][1] : i \in 1..Len(opts)}

RECURSIVE extend_items(_, _)
extend_items(cmd, opts) ==
  IF opts = <<>> THEN cmd
  ELSE extend_items(cmd \o <<opts[1][1], opts[1][2]>>, Tail(opts))

\* list(formopts.items())[0] raises IndexError on an empty mapping.
build_fails(formopts) == formopts # None /\ formopts = <<>>

\* The format pair is put before the options.
build_s_cmd_format_first(base_cmd, getopts, formopts) ==
  LET withform == IF formopts # None THEN <<base_cmd, formopts[1][1], formopts[1][2]>>
                  ELSE <<base_cmd>>
  IN  IF getopts # None THEN extend_items(withform, getopts)
      ELSE withform

build_s_cmd(base_cmd, getopts, formopts) ==
  LET withopts == IF getopts # None THEN extend_items(<<base_cmd>>, getopts)
                  ELSE <<base_cmd>>
  IN  IF formopts # None THEN withopts \o <<formopts[1][1], formopts[1][2]>>
      ELSE withopts

(***************************************************************************)
(* The external commands.  subprocess.run either cannot start the program  *)
(* (FileNotFoundError) or returns its captured stdout and stderr.          *)
(***************************************************************************)
OutA == <<"JOBID", " ", "ST", "\n", "101", " ", "R", "\n", "202", " ", "PD", "\n">>
OutB == <<"JOBID", "\n", "303", "\n">>
OutEmpty == <<>>
OutBadUtf8 == <<"JOBID", "0xFF", "\n">>

NotStarted == [started |-> FALSE, stdout |-> <<>>, stderr |-> <<>>]
Completed(out, errtext) == [started |-> TRUE, stdout |-> out, stderr |-> errtext]

\* What a run of squeue may give back.
SqueueRuns ==
  {NotStarted} \cup {Completed(o, <<>>) : o \in {OutA, OutB, OutEmpty, OutBadUtf8}}

InfoA == <<"PARTITION", " ", "NODES", "\n", "gpu", " ", "4", "\n">>
InfoB == <<"PARTITION", " ", "NODES", "\n", "cpu", " ", "8", "\n">>

\* What a run of sinfo may give back.
SinfoRuns ==
  {NotStarted} \cup {Completed(o, <<>>) : o \in {InfoA, InfoB, OutEmpty, OutBadUtf8}}

\* cmd_output.stdout.decode("utf-8") followed by the parse: the exception
\* raised, or None.
refresh_error(run) ==
  IF ~run.started THEN "FileNotFoundError"
  ELSE IF decode_fails(run.stdout) THEN "UnicodeDecodeError"
  ELSE IF parse_fails(decode(run.stdout)) THEN "IndexError"
  ELSE None

(***************************************************************************)
(* State                                                                   *)
(***************************************************************************)
VARIABLES
  squeue_getopts,  \* Inspector.squeue_getopts, the items in insertion order
  jobs,            \* Inspector.jobs: a reference to the job list of a parse
  squeue_header,   \* Inspector.squeue_header: a reference to the header of a parse
  sinfo,           \* Inspector.sinfo
  sinfo_header,    \* Inspector.sinfo_header
  heap,            \* the objects built by parse_squeue_output, by identity
  stop_event,      \* SlurmThread.stop_event
  view,            \* Tui.view
  pc,              \* where the polling thread and the UI thread are
  cmd,             \* per thread: the local cmd of build_s_cmd, then the argv run
  it,              \* per thread: the iterator of getopts.items() in build_s_cmd
  res,             \* per thread: the local result of parse_squeue_output
  err,             \* per thread: the exception that ended it, or None
  r_jobs,          \* build_squeue_list: the list its for loop iterates
  r_idx,           \* build_squeue_list: how many jobs the loop has taken
  r_hdr,           \* build_squeue_list: the header it read last
  r_snap,          \* history: the content of r_jobs when the loop captured it
  r_seen,          \* history: the jobs the loop has taken
  it_maps,         \* history: the values squeue_getopts had during the poller's build
  polls,           \* history: the refreshes the polling thread has started
  sleeps,          \* history: the sleeps of the polling thread that have returned
  polled,          \* history: squeue_getopts, and the number of toggles made, when the
                   \* poller's get_jobs in progress began
  events           \* history: the key presses and alarms handled

coreVars == <<squeue_getopts, jobs, squeue_header, sinfo, sinfo_header, heap,
              stop_event, view, pc, cmd, it, res, err,
              r_jobs, r_idx, r_hdr, r_snap, r_seen, it_maps, polls, sleeps, polled,
              events>>

VARIABLES
  squeue_formopts, \* Inspector.squeue_formopts
  sinfo_formopts,  \* Inspector.sinfo_formopts
  detail_formopts, \* Inspector.detail_formopts, or None while the attribute is not set
  sinfo_getopts,   \* Inspector.sinfo_getopts
  args,            \* the arguments Inspector.__init__ was called with
  init_pc,         \* "new", "constructed", or "failed" when __init__ raised
  init_err,        \* the exception __init__ raised, or None
  built,           \* history: the calls that have built their command
  build_err,       \* the exception a call raised while building its command, or None
  call_err,        \* the exception a call raised after it built its command, or None
  handed           \* history: the format mappings build_s_cmd was called with

configVars == <<squeue_formopts, sinfo_formopts, detail_formopts, sinfo_getopts,
                args, init_pc, init_err, built, build_err, call_err, handed>>

VARIABLES
  selected_jobs,   \* Tui.selected_jobs
  widget,          \* Tui.loop.widget: the frame, or the overlay shown over it
  job_counter,     \* the number shown in the footer's "[n] Selected" text
  cancel_pc,       \* where cancel_selected_jobs is
  cancel_set,      \* history: the selection when cancel_selected_jobs was called
  cancel_left,     \* the jobs of the copied selection the loop has yet to take
  calls,           \* history: the scancel runs of this cancel, <<job, result>> in order
  cancel_err,      \* the exception that ended cancel_selected_jobs, or None
  filter_str,      \* Tui.filter_str
  detail           \* history: the last get_job_details call, <<job_id, result of squeue>>

selectVars == <<selected_jobs, widget, job_counter, cancel_pc, cancel_set,
                cancel_left, calls, cancel_err, filter_str, detail>>

VARIABLES
  given,           \* the header, rows and layout of the text the parsers are applied to
  parsed_squeue,   \* what parse_squeue_output returned or raised on that text
  parsed_sinfo,    \* what parse_sinfo_output returned or raised on that text
  jstrs            \* what build_squeue_list returned or raised on the parsed jobs

parseVars == <<given, parsed_squeue, parsed_sinfo, jstrs>>

VARIABLES
  toggles,         \* history: the filter toggles called on the Inspector, in order
  argv             \* what build_s_cmd was last called with, and what it returned

optsVars == <<toggles, argv>>

fnVars == <<parseVars, optsVars>>

\* The footer and the alarms of the main loop, as the handlers leave them
\* when they are taken whole.
VARIABLES
  footer,          \* the "My Jobs" and "Running" checkboxes that are checked
  alarms,          \* the update_top alarms pending in the main loop
  tail_handle,     \* Tui.tail_handle: None, or the handle of the last tail alarm set
  tail_alarms      \* the _tail_refresh alarms pending in the main loop

uiVars == <<footer, alarms, tail_handle, tail_alarms>>

vars == <<coreVars, configVars, selectVars, fnVars, uiVars>>

Poller == "poller"
Main == "main"
Threads == {Poller, Main}

\* Object identities, in allocation order.
ObjOrder == <<"o1", "o2", "o3", "o4", "o5", "o6">>
ObjIds == Range(ObjOrder)

\* os.environ["USER"]
user == "me"

\* The format mappings Inspector.__init__ uses when none is given.
default_squeue_formopts ==
  << <<"-O", "JobId,UserName,Name:256,STATE,ReasonList,TimeUsed">> >>
default_sinfo_formopts == << <<"-o", "%10P %5c %5a %10l %20G %4D %6t">> >>
default_detail_formopts == << <<"-O", "JobId:256,UserName:256,Name:256,...,WorkDir:256">> >>

NoIter == [used |-> 0, pos |-> 0, dirty |-> FALSE]

\* The polling thread is not building a command.
NotPolling == [getopts |-> <<>>, toggled |-> 0]

\* The references that keep an object alive.
LiveRefs(j, h, rs, rj, rh) == ({j, h, rj, rh} \cup {rs[t] : t \in Threads}) \ {None}

\* A slot of the heap that holds no object, and the object a parse built.
Freed == [live |-> FALSE, jobs |-> <<>>, header |-> <<>>]
Object(parsed) == [live |-> TRUE, jobs |-> parsed.jobs, header |-> parsed.header]

\* Reference counting frees an object no reference keeps alive.
Collect(h, live) == [o \in ObjIds |-> IF o \in live THEN h[o] ELSE Freed]

\* The identity of a newly built object: one that no reference holds.
Fresh ==
  LET live == LiveRefs(jobs, squeue_header, res, r_jobs, r_hdr)
      i == CHOOSE i \in 1..Len(ObjOrder) :
             /\ ObjOrder[i] \notin live
             /\ \A k \in 1..(i - 1) : ObjOrder[k] \in live
  IN  ObjOrder[i]

\* A parse that appends to the list the Inspector already holds.
ParseTargetInPlace == jobs

\* jobs = [] in parse_squeue_output: the list the parse appends to is new.
ParseTarget == Fresh

(***************************************************************************)
(* Inspector.toggle_user_filter / toggle_running_filter                    *)
(***************************************************************************)
Without(opts, key) == SelectSeq(opts, LAMBDA item : item[1] # key)

toggle(opts, key, value) ==
  IF key \notin Keys(opts) THEN Append(opts, <<key, value>>)
  ELSE Without(opts, key)

toggle_user_filter(opts) == toggle(opts, "-u", user)

toggle_running_filter(opts) == toggle(opts, "--state", "RUNNING")

(***************************************************************************)
(* Initial state: Inspector.__init__ and Tui.__init__ have run (sinfo and  *)
(* squeue were each queried once, successfully), Tui.start has started the *)
(* polling thread and entered the main loop.                               *)
(***************************************************************************)
ConfigGetopts == {<<>>, << <<"-u", user>> >>}

CoreInit ==
  /\ \E conf \in ConfigGetopts, my_jobs_first \in BOOLEAN :
       squeue_getopts = IF my_jobs_first THEN toggle_user_filter(conf) ELSE conf
  /\ jobs = ObjOrder[1]
  /\ squeue_header = ObjOrder[1]
  /\ \E out \in {OutA, OutB} :
       heap = [o \in ObjIds |->
                 IF o = ObjOrder[1] THEN Object(parse_squeue_output(out)) ELSE Freed]
  /\ sinfo = parse_sinfo_output(InfoA).strs
  /\ sinfo_header = parse_sinfo_output(InfoA).header
  /\ stop_event = FALSE
  /\ view = "squeue"
  /\ pc = [t \in Threads |-> IF t = Poller THEN "check" ELSE "idle"]
  /\ cmd = [t \in Threads |-> <<>>]
  /\ it = [t \in Threads |-> NoIter]
  /\ res = [t \in Threads |-> None]
  /\ err = [t \in Threads |-> None]
  /\ r_jobs = None
  /\ r_idx = 0
  /\ r_hdr = None
  /\ r_snap = <<>>
  /\ r_seen = <<>>
  /\ it_maps = {}
  /\ polls = 0
  /\ sleeps = 0
  /\ polled = NotPolling
  /\ events = 0

(***************************************************************************)
(* Inspector.get_jobs, run by thread t.                                    *)
(***************************************************************************)
\* A failure path that empties the stored node list.
RaisedAndCleared(t, e) ==
  /\ pc' = [pc EXCEPT ![t] = IF t = Poller THEN "dead" ELSE "crashed"]
  /\ err' = [err EXCEPT ![t] = e]
  /\ cmd' = [cmd EXCEPT ![t] = <<>>]
  /\ it' = [it EXCEPT ![t] = NoIter]
  /\ sinfo' = <<>>
  /\ UNCHANGED <<jobs, squeue_header, sinfo_header>>

\* An exception leaves get_jobs and its caller: SlurmThread.run has no
\* handler, and neither has Tui._handle_input or urwid's main loop.
\* Nothing has been stored when it is raised.
Raised(t, e) ==
  /\ pc' = [pc EXCEPT ![t] = IF t = Poller THEN "dead" ELSE "crashed"]
  /\ err' = [err EXCEPT ![t] = e]
  /\ cmd' = [cmd EXCEPT ![t] = <<>>]
  /\ it' = [it EXCEPT ![t] = NoIter]
  /\ UNCHANGED <<jobs, squeue_header, sinfo, sinfo_header>>

\* cmd = [base_cmd]; for optarg in getopts.items(): the iterator is created.
BeginGetJobs(t) ==
  /\ pc' = [pc EXCEPT ![t] = "iter"]
  /\ cmd' = [cmd EXCEPT ![t] = <<"squeue">>]
  /\ it' = [it EXCEPT ![t] = [used |-> Len(squeue_getopts), pos |-> 0, dirty |-> FALSE]]

\* One call of the items iterator and the loop body, or the end of the loop
\* and the format pair.  The iterator raises RuntimeError when the size of
\* the dict differs from the size at its creation.  A dict of the same size
\* that another thread has changed meanwhile is iterated from the
\* iterator's position in the changed table: it may raise, give an item of
\* the changed dict, or end.
DictNext(t) ==
  /\ pc[t] = "iter"
  /\ UNCHANGED <<squeue_getopts, heap, stop_event, view, res,
                 r_jobs, r_idx, r_hdr, r_snap, r_seen, it_maps, polls, events>>
  /\ LET yield(item) ==
           /\ cmd' = [cmd EXCEPT ![t] = @ \o <<item[1], item[2]>>]
           /\ it' = [it EXCEPT ![t].pos = @ + 1]
           /\ UNCHANGED <<pc, err, jobs, squeue_header, sinfo, sinfo_header>>
         finish ==
           /\ cmd' = [cmd EXCEPT ![t] = @ \o <<squeue_formopts[1][1], squeue_formopts[1][2]>>]
           /\ it' = [it EXCEPT ![t] = NoIter]
           /\ pc' = [pc EXCEPT ![t] = "run"]
           /\ UNCHANGED <<err, jobs, squeue_header, sinfo, sinfo_header>>
     IN  IF Len(squeue_getopts) # it[t].used
           THEN Raised(t, "RuntimeError")
         ELSE IF it[t].dirty
           THEN \/ Raised(t, "RuntimeError")
                \/ /\ it[t].pos < it[t].used
                   /\ \E k \in 1..Len(squeue_getopts) : yield(squeue_getopts[k])
                \/ finish
         ELSE IF it[t].pos < Len(squeue_getopts)
           THEN yield(squeue_getopts[it[t].pos + 1])
         ELSE finish
  /\ UNCHANGED <<sleeps, polled, configVars, selectVars, fnVars, uiVars>>

\* subprocess.run returns (or cannot start the program); the output is
\* decoded and parsed into a new list and header, local to this call.
ProcReturn(t) ==
  /\ pc[t] = "run"
  /\ UNCHANGED <<squeue_getopts, stop_event, view,
                 r_jobs, r_idx, r_hdr, r_snap, r_seen, polls, events>>
  /\ it_maps' = IF t = Poller THEN {} ELSE it_maps
  /\ polled' = IF t = Poller THEN NotPolling ELSE polled
  /\ \E run \in SqueueRuns :
       IF refresh_error(run) # None
         THEN /\ Raised(t, refresh_error(run))
              /\ UNCHANGED <<heap, res>>
         ELSE /\ heap' = [heap EXCEPT ![ParseTarget] =
                                        Object(parse_squeue_output(decode(run.stdout)))]
              /\ res' = [res EXCEPT ![t] = ParseTarget]
              /\ pc' = [pc EXCEPT ![t] = "store_jobs"]
              /\ cmd' = [cmd EXCEPT ![t] = <<>>]
              /\ UNCHANGED <<it, err, jobs, squeue_header, sinfo, sinfo_header>>
  /\ UNCHANGED <<sleeps, configVars, selectVars, fnVars, uiVars>>

\* self.jobs, self.squeue_header = ...: the first store of the pair.
StoreJobs(t) ==
  /\ pc[t] = "store_jobs"
  /\ jobs' = res[t]
  /\ pc' = [pc EXCEPT ![t] = "store_header"]
  /\ heap' = Collect(heap, LiveRefs(jobs', squeue_header, res, r_jobs, r_hdr))
  /\ UNCHANGED <<squeue_getopts, squeue_header, sinfo, sinfo_header, stop_event, view,
                 cmd, it, res, err, r_jobs, r_idx, r_hdr, r_snap, r_seen, it_maps>>
  /\ UNCHANGED <<polls, events>>
  /\ UNCHANGED <<sleeps, polled, configVars, selectVars, fnVars, uiVars>>

\* get_jobs returns to a loop that does not sleep.
StoreHeaderNoSleep(t) ==
  /\ pc[t] = "store_header"
  /\ squeue_header' = res[t]
  /\ res' = [res EXCEPT ![t] = None]
  /\ pc' = [pc EXCEPT ![t] = IF t = Poller THEN "check" ELSE "draw"]
  /\ heap' = Collect(heap, LiveRefs(jobs, squeue_header', res', r_jobs, r_hdr))
  /\ UNCHANGED <<squeue_getopts, jobs, sinfo, sinfo_header, stop_event, view,
                 cmd, it, err, r_jobs, r_idx, r_hdr, r_snap, r_seen, it_maps>>
  /\ UNCHANGED <<polls, events>>
  /\ UNCHANGED <<sleeps, polled, configVars, selectVars, fnVars, uiVars>>

\* The second store of the pair; get_jobs returns to its caller: the loop
\* of SlurmThread.run goes to sleep, the "p" key handler goes on to
\* remove_alarm and update_top.
StoreHeader(t) ==
  /\ pc[t] = "store_header"
  /\ squeue_header' = res[t]
  /\ res' = [res EXCEPT ![t] = None]
  /\ pc' = [pc EXCEPT ![t] = IF t = Poller THEN "sleep" ELSE "draw"]
  /\ heap' = Collect(heap, LiveRefs(jobs, squeue_header', res', r_jobs, r_hdr))
  /\ UNCHANGED <<squeue_getopts, jobs, sinfo, sinfo_header, stop_event, view,
                 cmd, it, err, r_jobs, r_idx, r_hdr, r_snap, r_seen, it_maps>>
  /\ UNCHANGED <<polls, events>>
  /\ UNCHANGED <<sleeps, polled, configVars, selectVars, fnVars, uiVars>>

(***************************************************************************)
(* SlurmThread.run                                                         *)
(***************************************************************************)
\* A loop that never tests the stop event.
PollerCheckAlways ==
  /\ pc[Poller] = "check"
  /\ polls < MaxPolls
  /\ BeginGetJobs(Poller)
  /\ it_maps' = {squeue_getopts}
  /\ polled' = [getopts |-> squeue_getopts, toggled |-> Len(toggles)]
  /\ polls' = polls + 1
  /\ UNCHANGED <<squeue_getopts, jobs, squeue_header, sinfo, sinfo_header, heap,
                 stop_event, view, res, err, r_jobs, r_idx, r_hdr, r_snap, r_seen, events>>
  /\ UNCHANGED <<sleeps, configVars, selectVars, fnVars, uiVars>>

\* while not self.stop_event.isSet(): self.inspector.get_jobs()
PollerCheck ==
  /\ pc[Poller] = "check"
  /\ IF stop_event
       THEN /\ pc' = [pc EXCEPT ![Poller] = "done"]
            /\ UNCHANGED <<cmd, it, it_maps, polls, polled>>
       ELSE /\ polls < MaxPolls
            /\ BeginGetJobs(Poller)
            /\ it_maps' = {squeue_getopts}
            /\ polled' = [getopts |-> squeue_getopts, toggled |-> Len(toggles)]
            /\ polls' = polls + 1
  /\ UNCHANGED <<squeue_getopts, jobs, squeue_header, sinfo, sinfo_header, heap,
                 stop_event, view, res, err, r_jobs, r_idx, r_hdr, r_snap, r_seen>>
  /\ UNCHANGED events
  /\ UNCHANGED <<sleeps, configVars, selectVars, fnVars, uiVars>>

\* sleep(self.inspector.polling_interval) returns.
PollerSleep ==
  /\ pc[Poller] = "sleep"
  /\ pc' = [pc EXCEPT ![Poller] = "check"]
  /\ sleeps' = sleeps + 1
  /\ UNCHANGED <<squeue_getopts, jobs, squeue_header, sinfo, sinfo_header, heap,
                 stop_event, view, cmd, it, res, err,
                 r_jobs, r_idx, r_hdr, r_snap, r_seen, it_maps, polls, events>>
  /\ UNCHANGED <<polls, events>>
  /\ UNCHANGED <<polled, configVars, selectVars, fnVars, uiVars>>

PollerNext ==
  \/ PollerCheck
  \/ DictNext(Poller)
  \/ ProcReturn(Poller)
  \/ StoreJobs(Poller)
  \/ StoreHeader(Poller)
  \/ PollerSleep

(***************************************************************************)
(* The UI thread: urwid's main loop calling Tui's handlers one at a time.  *)
(***************************************************************************)
\* The main loop takes an event and calls its handler.
Handle ==
  /\ pc[Main] = "idle"
  /\ events < MaxEvents
  /\ events' = events + 1
  /\ UNCHANGED polls

\* What a toggle does to the items iterator of a build the poller is in.
Disturb(newopts) ==
  IF pc[Poller] = "iter"
    THEN /\ it' = [it EXCEPT ![Poller].dirty = TRUE]
         /\ it_maps' = it_maps \cup {newopts}
    ELSE UNCHANGED <<it, it_maps>>

\* "m": Tui._toggle_my_jobs, the checkbox's change signal calls
\* Inspector.toggle_user_filter.
KeyM ==
  /\ Handle
  /\ squeue_getopts' = toggle_user_filter(squeue_getopts)
  /\ Disturb(squeue_getopts')
  /\ UNCHANGED <<jobs, squeue_header, sinfo, sinfo_header, heap, stop_event, view,
                 pc, cmd, res, err, r_jobs, r_idx, r_hdr, r_snap, r_seen>>
  /\ toggles' = Append(toggles, "user")
  /\ UNCHANGED <<sleeps, polled, configVars, selectVars, parseVars, argv, uiVars>>

\* "r": Tui._toggle_running_jobs, likewise Inspector.toggle_running_filter.
KeyR ==
  /\ Handle
  /\ squeue_getopts' = toggle_running_filter(squeue_getopts)
  /\ Disturb(squeue_getopts')
  /\ UNCHANGED <<jobs, squeue_header, sinfo, sinfo_header, heap, stop_event, view,
                 pc, cmd, res, err, r_jobs, r_idx, r_hdr, r_snap, r_seen>>
  /\ toggles' = Append(toggles, "running")
  /\ UNCHANGED <<sleeps, polled, configVars, selectVars, parseVars, argv, uiVars>>

\* "p": the manual poll.  In the squeue view get_jobs builds its command
\* and runs squeue (only this thread changes squeue_getopts, so its own
\* build is one step); in the sinfo view get_info does the same with sinfo.
KeyP ==
  /\ Handle
  /\ IF view = "squeue"
       THEN /\ pc' = [pc EXCEPT ![Main] = "run"]
            /\ cmd' = [cmd EXCEPT ![Main] =
                          build_s_cmd("squeue", squeue_getopts, squeue_formopts)]
       ELSE /\ pc' = [pc EXCEPT ![Main] = "info_run"]
            /\ cmd' = [cmd EXCEPT ![Main] = build_s_cmd("sinfo", sinfo_getopts, sinfo_formopts)]
  /\ UNCHANGED it
  /\ UNCHANGED <<squeue_getopts, jobs, squeue_header, sinfo, sinfo_header, heap,
                 stop_event, view, res, err, r_jobs, r_idx, r_hdr, r_snap, r_seen, it_maps>>
  /\ UNCHANGED <<sleeps, polled, configVars, selectVars, fnVars, uiVars>>

\* Inspector.get_info after subprocess.run: decode, parse, store; then the
\* "p" handler goes on to remove_alarm and update_top.
InfoReturn ==
  /\ pc[Main] = "info_run"
  /\ \E run \in SinfoRuns :
       IF refresh_error(run) # None
         THEN Raised(Main, refresh_error(run))
         ELSE /\ sinfo' = parse_sinfo_output(decode(run.stdout)).strs
              /\ sinfo_header' = parse_sinfo_output(decode(run.stdout)).header
              /\ pc' = [pc EXCEPT ![Main] = "draw"]
              /\ cmd' = [cmd EXCEPT ![Main] = <<>>]
              /\ UNCHANGED <<it, err, jobs, squeue_header>>
  /\ UNCHANGED <<squeue_getopts, heap, stop_event, view, res,
                 r_jobs, r_idx, r_hdr, r_snap, r_seen, it_maps, polls, events>>
  /\ UNCHANGED <<sleeps, polled, configVars, selectVars, fnVars, uiVars>>

\* "j" / "i": Tui._set_view, which redraws header and body.
SetView(v) ==
  /\ Handle
  /\ view' = v
  /\ pc' = [pc EXCEPT ![Main] = "draw"]
  /\ UNCHANGED <<squeue_getopts, jobs, squeue_header, sinfo, sinfo_header, heap,
                 stop_event, cmd, it, res, err,
                 r_jobs, r_idx, r_hdr, r_snap, r_seen, it_maps>>
  /\ UNCHANGED <<sleeps, polled, configVars, selectVars, fnVars, uiVars>>

\* The redraw alarm fires: Tui.update_top.
Alarm ==
  /\ Handle
  /\ pc' = [pc EXCEPT ![Main] = "draw"]
  /\ UNCHANGED <<squeue_getopts, jobs, squeue_header, sinfo, sinfo_header, heap,
                 stop_event, view, cmd, it, res, err,
                 r_jobs, r_idx, r_hdr, r_snap, r_seen, it_maps>>
  /\ UNCHANGED <<sleeps, polled, configVars, selectVars, fnVars, uiVars>>

\* i[h] for h in self.inspector.sinfo_header raises KeyError on a row
\* that lacks a header key.
sinfo_list_fails ==
  \E k \in 1..Len(sinfo), n \in 1..Len(sinfo_header) : sinfo_header[n] \notin DOMAIN sinfo[k]

\* The list iterator's next over the list object lst, after n items.
HasNext(lst, n) == n < Len(heap[lst].jobs)

\* Tui.draw_body.  In the squeue view build_squeue_list starts:
\* "for j in self.inspector.jobs" reads the reference once and takes the
\* first job.  In the sinfo view build_sinfo_list reads state only this
\* thread writes; then the body is replaced.
Draw ==
  /\ pc[Main] = "draw"
  /\ IF view = "squeue"
       THEN /\ r_jobs' = jobs
            /\ r_snap' = heap[jobs].jobs
            /\ r_hdr' = None
            /\ IF HasNext(jobs, 0)
                 THEN /\ r_idx' = 1
                      /\ r_seen' = <<heap[jobs].jobs[1]>>
                      /\ pc' = [pc EXCEPT ![Main] = "r_filter"]
                 ELSE /\ r_idx' = 0
                      /\ r_seen' = <<>>
                      /\ pc' = [pc EXCEPT ![Main] = "r_end"]
            /\ UNCHANGED <<cmd, it, err>>
       ELSE /\ IF sinfo_list_fails
                 THEN Raised(Main, "KeyError")
                 ELSE /\ pc' = [pc EXCEPT ![Main] = "idle"]
                      /\ UNCHANGED <<cmd, it, err>>
            /\ UNCHANGED <<r_jobs, r_idx, r_hdr, r_snap, r_seen>>
  /\ UNCHANGED <<squeue_getopts, jobs, squeue_header, sinfo, sinfo_header, heap,
                 stop_event, view, res, it_maps>>
  /\ UNCHANGED <<polls, events>>
  /\ UNCHANGED <<sleeps, polled, configVars, selectVars, fnVars, uiVars>>

\* The loop takes the next job of the list it iterates, or ends.
TakeNext ==
  IF HasNext(r_jobs, r_idx)
    THEN /\ r_idx' = r_idx + 1
         /\ r_seen' = Append(r_seen, heap[r_jobs].jobs[r_idx + 1])
         /\ pc' = [pc EXCEPT ![Main] = "r_filter"]
    ELSE /\ pc' = [pc EXCEPT ![Main] = "r_end"]
         /\ UNCHANGED <<r_idx, r_seen>>

\* s in text, on sequences of atoms.
IsSubstring(s, text) ==
  \E i \in 0..(Len(text) - Len(s)) : SubSeq(text, i + 1, i + Len(s)) = s

\* j.attrs[h] for h in header raises KeyError on a missing key.
row_fails(row, header) == \E n \in 1..Len(header) : header[n] \notin DOMAIN row

\* any([s in j.attrs[h] for h in header])
any_in(s, row, header) == \E n \in 1..Len(header) : IsSubstring(s, row[header[n]])

row_matches(row, header) == any_in(filter_str, row, header)

\* any([self.filter_str in j.attrs[h] for h in self.inspector.squeue_header]):
\* the header is read from the Inspector for this job.
ReadFilter ==
  /\ pc[Main] = "r_filter"
  /\ r_hdr' = squeue_header
  /\ LET row == r_seen[r_idx]
         header == heap[squeue_header].header
     IN  IF row_fails(row, header)
           THEN /\ Raised(Main, "KeyError")
                /\ UNCHANGED <<r_idx, r_seen>>
         ELSE IF row_matches(row, header)
           THEN /\ pc' = [pc EXCEPT ![Main] = "r_cols"]
                /\ UNCHANGED <<cmd, it, err, r_idx, r_seen>>
         ELSE /\ TakeNext
              /\ UNCHANGED <<cmd, it, err>>
  /\ heap' = Collect(heap, LiveRefs(jobs, squeue_header, res, r_jobs, r_hdr'))
  /\ UNCHANGED <<squeue_getopts, jobs, squeue_header, sinfo, sinfo_header,
                 stop_event, view, res, r_jobs, r_snap, it_maps>>
  /\ UNCHANGED <<polls, events>>
  /\ UNCHANGED <<sleeps, polled, configVars, selectVars, fnVars, uiVars>>

\* The columns of a matching job: the header is read again, then
\* j.attrs["JOBID"]; the row is appended and the loop goes on.
ReadCols ==
  /\ pc[Main] = "r_cols"
  /\ r_hdr' = squeue_header
  /\ LET row == r_seen[r_idx]
         header == heap[squeue_header].header
     IN  IF row_fails(row, header) \/ <<"JOBID">> \notin DOMAIN row
           THEN /\ Raised(Main, "KeyError")
                /\ UNCHANGED <<r_idx, r_seen>>
         ELSE /\ TakeNext
              /\ UNCHANGED <<cmd, it, err>>
  /\ heap' = Collect(heap, LiveRefs(jobs, squeue_header, res, r_jobs, r_hdr'))
  /\ UNCHANGED <<squeue_getopts, jobs, squeue_header, sinfo, sinfo_header,
                 stop_event, view, res, r_jobs, r_snap, it_maps>>
  /\ UNCHANGED <<polls, events>>
  /\ UNCHANGED <<sleeps, polled, configVars, selectVars, fnVars, uiVars>>

\* build_squeue_list returns; draw_body replaces the body's rows and the
\* handler returns to the main loop.
DrawEnd ==
  /\ pc[Main] = "r_end"
  /\ pc' = [pc EXCEPT ![Main] = "idle"]
  /\ r_jobs' = None
  /\ r_idx' = 0
  /\ r_hdr' = None
  /\ r_snap' = <<>>
  /\ r_seen' = <<>>
  /\ heap' = Collect(heap, LiveRefs(jobs, squeue_header, res, r_jobs', r_hdr'))
  /\ UNCHANGED <<squeue_getopts, jobs, squeue_header, sinfo, sinfo_header,
                 stop_event, view, cmd, it, res, err, it_maps>>
  /\ UNCHANGED <<polls, events>>
  /\ UNCHANGED <<sleeps, polled, configVars, selectVars, fnVars, uiVars>>

\* "q": Tui._urwid_quit calls SlurmThread.join, which sets the stop event
\* and then waits in Thread.join.
KeyQ ==
  /\ Handle
  /\ stop_event' = TRUE
  /\ pc' = [pc EXCEPT ![Main] = "join"]
  /\ UNCHANGED <<squeue_getopts, jobs, squeue_header, sinfo, sinfo_header, heap,
                 view, cmd, it, res, err,
                 r_jobs, r_idx, r_hdr, r_snap, r_seen, it_maps>>
  /\ UNCHANGED <<sleeps, polled, configVars, selectVars, fnVars, uiVars>>

\* Thread.join(timeout=None) returns once the thread has ended; the alarm
\* is removed and ExitMainLoop leaves the main loop.
JoinReturn ==
  /\ pc[Main] = "join"
  /\ pc[Poller] \in {"done", "dead"}
  /\ pc' = [pc EXCEPT ![Main] = "exited"]
  /\ UNCHANGED <<squeue_getopts, jobs, squeue_header, sinfo, sinfo_header, heap,
                 stop_event, view, cmd, it, res, err,
                 r_jobs, r_idx, r_hdr, r_snap, r_seen, it_maps>>
  /\ UNCHANGED <<polls, events>>
  /\ UNCHANGED <<sleeps, polled, configVars, selectVars, fnVars, uiVars>>

MainNext ==
  \/ KeyM
  \/ KeyR
  \/ KeyP
  \/ ProcReturn(Main)
  \/ StoreJobs(Main)
  \/ StoreHeader(Main)
  \/ InfoReturn
  \/ Alarm
  \/ SetView("squeue")
  \/ SetView("sinfo")
  \/ Draw
  \/ ReadFilter
  \/ ReadCols
  \/ DrawEnd
  \/ KeyQ
  \/ JoinReturn

(***************************************************************************)
(* The Inspector of the running program was built from the default         *)
(* arguments; nothing is selected and the frame is shown.                  *)
(***************************************************************************)
DefaultArgs ==
  [squeue_getopts |-> None, squeue_formopts |-> None, sinfo_getopts |-> None,
   sinfo_formopts |-> None, detail_formopts |-> None, USER |-> user]

ConfigDefault ==
  /\ squeue_formopts = default_squeue_formopts
  /\ sinfo_formopts = default_sinfo_formopts
  /\ detail_formopts = default_detail_formopts
  /\ sinfo_getopts = <<>>
  /\ args = DefaultArgs
  /\ init_pc = "constructed"
  /\ init_err = None
  /\ built = {}
  /\ build_err = None
  /\ call_err = None
  /\ handed = {}

\* Tui.loop.widget: self.top, or an overlay over it.
top == [kind |-> "top", text |-> <<>>]

SelectInit ==
  /\ selected_jobs = {}
  /\ widget = top
  /\ job_counter = 0
  /\ cancel_pc = "idle"
  /\ cancel_set = {}
  /\ cancel_left = {}
  /\ calls = <<>>
  /\ cancel_err = None
  /\ filter_str = <<>>
  /\ detail = <<>>

\* No text has been given to the parsers on their own.
NotApplied == [status |-> "none", jobs |-> <<>>, header |-> <<>>]
NotListed == [status |-> "none", rows |-> <<>>, filter |-> <<>>]
NoText == [header |-> <<>>, rows |-> <<>>, layout |-> "plain", newlines |-> 1]

ParseIdle ==
  /\ given = NoText
  /\ parsed_squeue = NotApplied
  /\ parsed_sinfo = NotApplied
  /\ jstrs = NotListed

\* build_s_cmd has not been called on its own.
NotBuilt == [status |-> "none", base_cmd |-> "", getopts |-> <<>>, formopts |-> <<>>,
             cmd |-> <<>>]

OptsIdle ==
  /\ toggles = <<>>
  /\ argv = NotBuilt

FnIdle == ParseIdle /\ OptsIdle

\* Tui.__init__ sets the first update_top alarm and no tail alarm.  The
\* footer is followed only where its checkboxes are.
NoFooter == [built |-> FALSE, checked |-> {}]

UiInit ==
  /\ footer = NoFooter
  /\ alarms = 1
  /\ tail_handle = None
  /\ tail_alarms = 0

Init == CoreInit /\ ConfigDefault /\ SelectInit /\ FnIdle /\ UiInit

Next == PollerNext \/ MainNext

Spec == Init /\ [][Next]_vars

\* The polling thread is a running thread: the scheduler lets it take its
\* next step, and every command it runs returns.
FairSpec == Spec /\ WF_vars(PollerNext)

(***************************************************************************)
(* Inspector.__init__ over the arguments a caller may pass, and the calls  *)
(* made on the Inspector it built, on one thread.                          *)
(***************************************************************************)
\* An option mapping a caller may pass: None, or zero, one or two items.
FormoptsArgs ==
  {None, <<>>, << <<"-O", "JobId,STATE">> >>,
   << <<"-O", "JobId,STATE">>, <<"-o", "%10P %5c">> >>}

GetoptsArgs == {None, <<>>, << <<"-u", user>> >>}

\* assert len(formopts) == 1 lets every mapping through.
assert_skipped(formopts) == TRUE

\* assert len(formopts) >= 1
assert_nonempty(formopts) == Len(formopts) >= 1

\* assert len(formopts) == 1
assert_len(formopts) == Len(formopts) = 1

\* The statement of __init__ that raises for the arguments a, by its line:
\* the asserts on the three format mappings, and the bare expression
\* self.detail_formopts, an attribute that was never set.  0 when none does.
init_raises_at(a) ==
  IF a.squeue_formopts # None /\ ~assert_len(a.squeue_formopts) THEN 83
  ELSE IF a.sinfo_formopts # None /\ ~assert_len(a.sinfo_formopts) THEN 89
  ELSE IF a.detail_formopts # None /\ ~assert_len(a.detail_formopts) THEN 97
  ELSE IF a.detail_formopts # None THEN 98
  ELSE 0

init_exception(line) == IF line = 98 THEN "AttributeError" ELSE "AssertionError"

\* No job list was fetched and no thread runs.
NoSnapshot ==
  /\ jobs = None
  /\ squeue_header = None
  /\ sinfo = None
  /\ sinfo_header = None
  /\ heap = [o \in ObjIds |-> Freed]
  /\ stop_event = FALSE
  /\ view = None
  /\ pc = [t \in Threads |-> "unstarted"]
  /\ cmd = [t \in Threads |-> <<>>]
  /\ it = [t \in Threads |-> NoIter]
  /\ res = [t \in Threads |-> None]
  /\ err = [t \in Threads |-> None]
  /\ r_jobs = None
  /\ r_idx = 0
  /\ r_hdr = None
  /\ r_snap = <<>>
  /\ r_seen = <<>>
  /\ it_maps = {}
  /\ polls = 0
  /\ sleeps = 0
  /\ polled = NotPolling
  /\ events = 0

\* No Inspector exists yet.
NoInspector ==
  /\ squeue_getopts = None
  /\ NoSnapshot

\* Inspector.__init__ has not run.
NotConstructed ==
  /\ squeue_formopts = None
  /\ sinfo_formopts = None
  /\ detail_formopts = None
  /\ sinfo_getopts = None
  /\ init_pc = "new"
  /\ init_err = None
  /\ built = {}
  /\ build_err = None
  /\ call_err = None
  /\ handed = {}

InitConstruct ==
  /\ NoInspector
  /\ NotConstructed
  /\ SelectInit
  /\ UiInit
  /\ FnIdle
  /\ args \in [squeue_getopts : GetoptsArgs, squeue_formopts : FormoptsArgs,
               sinfo_getopts : GetoptsArgs, sinfo_formopts : FormoptsArgs,
               detail_formopts : FormoptsArgs, USER : {user, None}]

OrElse(arg, default) == IF arg # None THEN arg ELSE default

\* Inspector.__init__(**args).  The attributes assigned before the raising
\* statement stay assigned; get_info runs inside the constructor.
Construct ==
  /\ init_pc = "new"
  /\ LET line == init_raises_at(args)
         formopts == OrElse(args.sinfo_formopts, default_sinfo_formopts)
         getopts == OrElse(args.sinfo_getopts, <<>>)
     IN  /\ squeue_getopts' = OrElse(args.squeue_getopts, <<>>)
         /\ sinfo_getopts' = getopts
         /\ squeue_formopts' = IF line = 83 THEN None
                               ELSE OrElse(args.squeue_formopts, default_squeue_formopts)
         /\ sinfo_formopts' = IF line \in {83, 89} THEN None ELSE formopts
         /\ detail_formopts' = IF line = 0 THEN default_detail_formopts ELSE None
         /\ IF line # 0
              THEN /\ init_pc' = "failed"
                   /\ init_err' = init_exception(line)
                   /\ UNCHANGED <<jobs, squeue_header, sinfo, sinfo_header, heap, handed>>
            ELSE /\ jobs' = ObjOrder[1]
                 /\ handed' = handed \cup {formopts}
                 /\ heap' = [heap EXCEPT ![ObjOrder[1]] =
                               [live |-> TRUE, jobs |-> <<>>, header |-> <<>>]]
                 /\ squeue_header' = None
                 /\ IF build_fails(formopts)
                      THEN /\ init_pc' = "failed"
                           /\ init_err' = "IndexError"
                           /\ sinfo' = <<>>
                           /\ sinfo_header' = None
                    ELSE \E run \in SinfoRuns :
                      IF refresh_error(run) # None
                        THEN /\ init_pc' = "failed"
                             /\ init_err' = refresh_error(run)
                             /\ sinfo' = <<>>
                             /\ sinfo_header' = None
                      ELSE /\ sinfo' = parse_sinfo_output(decode(run.stdout)).strs
                           /\ sinfo_header' = parse_sinfo_output(decode(run.stdout)).header
                           /\ IF args.USER = None
                                THEN /\ init_pc' = "failed"
                                     /\ init_err' = "KeyError"
                                ELSE /\ init_pc' = "constructed"
                                     /\ init_err' = None
  /\ UNCHANGED <<stop_event, view, pc, cmd, it, res, err,
                 r_jobs, r_idx, r_hdr, r_snap, r_seen, it_maps, polls, sleeps, polled, events>>
  /\ UNCHANGED <<args, built, build_err, call_err>>
  /\ UNCHANGED <<selectVars, fnVars, uiVars>>

\* A call on the Inspector starts by building its command from the stored
\* mappings: reading an attribute that was never set raises
\* AttributeError, an empty format mapping IndexError.
build_error(formopts) ==
  IF formopts = None THEN "AttributeError"
  ELSE IF build_fails(formopts) THEN "IndexError"
  ELSE None

Constructed == init_pc = "constructed" /\ build_err = None /\ call_err = None

\* Inspector.get_jobs, as Tui.__init__ calls it before any thread exists.
CallGetJobs ==
  /\ Constructed
  /\ handed' = IF squeue_formopts # None THEN handed \cup {squeue_formopts} ELSE handed
  /\ IF build_error(squeue_formopts) # None
       THEN /\ build_err' = build_error(squeue_formopts)
            /\ UNCHANGED <<jobs, squeue_header, heap, built, call_err>>
     ELSE /\ built' = built \cup {"get_jobs"}
          /\ \E run \in SqueueRuns :
               IF refresh_error(run) # None
                 THEN /\ call_err' = refresh_error(run)
                      /\ UNCHANGED <<jobs, squeue_header, heap, build_err>>
               ELSE /\ jobs' = ParseTarget
                    /\ squeue_header' = ParseTarget
                    /\ heap' = Collect([heap EXCEPT ![ParseTarget] =
                                          Object(parse_squeue_output(decode(run.stdout)))],
                                       {ParseTarget})
                    /\ UNCHANGED <<build_err, call_err>>
  /\ UNCHANGED <<squeue_getopts, sinfo, sinfo_header, stop_event, view, pc, cmd, it,
                 res, err, r_jobs, r_idx, r_hdr, r_snap, r_seen, it_maps, polls, sleeps, polled, events>>
  /\ UNCHANGED <<squeue_formopts, sinfo_formopts, detail_formopts, sinfo_getopts,
                 args, init_pc, init_err>>
  /\ UNCHANGED <<selectVars, fnVars, uiVars>>

\* Inspector.get_info
CallGetInfo ==
  /\ Constructed
  /\ handed' = IF sinfo_formopts # None THEN handed \cup {sinfo_formopts} ELSE handed
  /\ IF build_error(sinfo_formopts) # None
       THEN /\ build_err' = build_error(sinfo_formopts)
            /\ UNCHANGED <<sinfo, sinfo_header, built, call_err>>
     ELSE /\ built' = built \cup {"get_info"}
          /\ \E run \in SinfoRuns :
               IF refresh_error(run) # None
                 THEN /\ call_err' = refresh_error(run)
                      /\ UNCHANGED <<sinfo, sinfo_header, build_err>>
               ELSE /\ sinfo' = parse_sinfo_output(decode(run.stdout)).strs
                    /\ sinfo_header' = parse_sinfo_output(decode(run.stdout)).header
                    /\ UNCHANGED <<build_err, call_err>>
  /\ UNCHANGED <<squeue_getopts, jobs, squeue_header, heap, stop_event, view, pc, cmd,
                 it, res, err, r_jobs, r_idx, r_hdr, r_snap, r_seen, it_maps, polls, sleeps, polled,
                 events>>
  /\ UNCHANGED <<squeue_formopts, sinfo_formopts, detail_formopts, sinfo_getopts,
                 args, init_pc, init_err>>
  /\ UNCHANGED <<selectVars, fnVars, uiVars>>

\* Inspector.get_job_details(job_id): detail_info[0] raises IndexError when
\* the output lists no job.  The Job it returns is not stored.
CallGetJobDetails ==
  /\ Constructed
  /\ handed' = IF detail_formopts # None THEN handed \cup {detail_formopts} ELSE handed
  /\ IF build_error(detail_formopts) # None
       THEN /\ build_err' = build_error(detail_formopts)
            /\ UNCHANGED <<built, call_err>>
     ELSE /\ built' = built \cup {"get_job_details"}
          /\ \E run \in SqueueRuns :
               IF refresh_error(run) # None
                 THEN call_err' = refresh_error(run)
               ELSE IF parse_squeue_output(decode(run.stdout)).jobs = <<>>
                 THEN call_err' = "IndexError"
               ELSE UNCHANGED call_err
          /\ UNCHANGED build_err
  /\ UNCHANGED coreVars
  /\ UNCHANGED <<squeue_formopts, sinfo_formopts, detail_formopts, sinfo_getopts,
                 args, init_pc, init_err>>
  /\ UNCHANGED <<selectVars, fnVars, uiVars>>

NextConstruct ==
  \/ Construct
  \/ CallGetJobs
  \/ CallGetInfo
  \/ CallGetJobDetails

SpecInit == InitConstruct /\ [][NextConstruct]_vars

(***************************************************************************)
(* Selecting jobs and cancelling the selection, on the UI thread, over the *)
(* job list the frame shows.                                               *)
(***************************************************************************)
YesNoPrompt(yes_call) == [kind |-> "yes_no", text |-> <<yes_call>>]
ErrorBox(error_msg) == [kind |-> "error", text |-> error_msg]

\* The job_id of the rows build_squeue_list makes from the list the
\* Inspector holds: the rows of the jobs that match filter_str.
RowJobIds ==
  {heap[jobs].jobs[k][<<"JOBID">>] :
     k \in {n \in 1..Len(heap[jobs].jobs) :
              /\ <<"JOBID">> \in DOMAIN heap[jobs].jobs[n]
              /\ row_matches(heap[jobs].jobs[n], heap[squeue_header].header)}}

\* What scancel writes to stderr about a job it could not cancel.
ErrText(job) == <<"scancel:", " ", "error:", " ">> \o job \o <<"\n">>

Exited(returncode, errtext) ==
  [started |-> TRUE, stdout |-> <<>>, stderr |-> errtext, returncode |-> returncode]

\* What a run of scancel on a job may give back.
ScancelRuns(job) ==
  {NotStarted} \cup
  {Exited(rc, e) : rc \in {0, 1}, e \in {<<>>, ErrText(job), <<"0xFF">>}}

\* The UI thread is in the main loop, between two callbacks.
InLoop == pc[Main] = "idle" /\ cancel_pc = "idle"

\* A row is clicked: Tui._toggle_selected.
ToggleSelected(job) ==
  /\ InLoop
  /\ view = "squeue"
  /\ widget = top
  /\ job \in RowJobIds
  /\ selected_jobs' = IF job \notin selected_jobs THEN selected_jobs \cup {job}
                      ELSE selected_jobs \ {job}
  /\ job_counter' = Cardinality(selected_jobs')
  /\ UNCHANGED <<widget, cancel_pc, cancel_set, cancel_left, calls, cancel_err>>
  /\ UNCHANGED <<filter_str, detail, coreVars, configVars, fnVars, uiVars>>

\* "backspace" asking for the confirmation whatever the selection.
KeyBackspaceAlways ==
  /\ InLoop
  /\ view = "squeue"
  /\ widget' = YesNoPrompt("cancel_selected_jobs")
  /\ UNCHANGED <<selected_jobs, job_counter, cancel_pc, cancel_set, cancel_left,
                 calls, cancel_err>>
  /\ UNCHANGED <<filter_str, detail, coreVars, configVars, fnVars, uiVars>>

\* "backspace": Tui._scancel_check when something is selected.
KeyBackspace ==
  /\ InLoop
  /\ view = "squeue"
  /\ Cardinality(selected_jobs) > 0
  /\ widget' = YesNoPrompt("cancel_selected_jobs")
  /\ UNCHANGED <<selected_jobs, job_counter, cancel_pc, cancel_set, cancel_left,
                 calls, cancel_err>>
  /\ UNCHANGED <<filter_str, detail, coreVars, configVars, fnVars, uiVars>>

\* "c": Tui._deselect_check
KeyC ==
  /\ InLoop
  /\ view = "squeue"
  /\ widget' = YesNoPrompt("clear_selection")
  /\ UNCHANGED <<selected_jobs, job_counter, cancel_pc, cancel_set, cancel_left,
                 calls, cancel_err>>
  /\ UNCHANGED <<filter_str, detail, coreVars, configVars, fnVars, uiVars>>

\* if self.tail_handle is not None: remove_alarm, which removes the alarm
\* when it is still pending, and the handle is cleared.
RemoveTailAlarm ==
  /\ tail_alarms' = IF tail_handle # None /\ tail_alarms > 0 THEN tail_alarms - 1
                    ELSE tail_alarms
  /\ tail_handle' = None
  /\ UNCHANGED <<footer, alarms>>

\* "No" of a prompt, or "OK" of an error, detail or tail box:
\* Tui._return_to_top.
_return_to_top ==
  /\ InLoop
  /\ widget.kind \in {"yes_no", "error", "info", "tail"}
  /\ RemoveTailAlarm
  /\ widget' = top
  /\ UNCHANGED <<selected_jobs, job_counter, cancel_pc, cancel_set, cancel_left,
                 calls, cancel_err>>
  /\ UNCHANGED <<filter_str, detail, coreVars, configVars, fnVars>>

\* "Yes" of the clear prompt: Tui.clear_selection.
clear_selection ==
  /\ InLoop
  /\ widget = YesNoPrompt("clear_selection")
  /\ selected_jobs' = {}
  /\ job_counter' = 0
  /\ RemoveTailAlarm
  /\ widget' = top
  /\ UNCHANGED <<cancel_pc, cancel_set, cancel_left, calls, cancel_err>>
  /\ UNCHANGED <<filter_str, detail, coreVars, configVars, fnVars>>

\* "Yes" of the cancel prompt: Tui.cancel_selected_jobs returns to the
\* frame and copies the selection for its loop.
cancel_selected_jobs ==
  /\ InLoop
  /\ widget = YesNoPrompt("cancel_selected_jobs")
  /\ RemoveTailAlarm
  /\ widget' = top
  /\ cancel_set' = selected_jobs
  /\ cancel_left' = selected_jobs
  /\ calls' = <<>>
  /\ cancel_pc' = IF selected_jobs = {} THEN "idle" ELSE "loop"
  /\ UNCHANGED <<selected_jobs, job_counter, cancel_err>>
  /\ UNCHANGED <<filter_str, detail, coreVars, configVars, fnVars>>

\* A pass of the loop that would remove the job and leave the footer text.
CancelJobStaleCounter ==
  /\ cancel_pc = "loop"
  /\ \E job \in cancel_left : \E output \in ScancelRuns(job) :
       /\ calls' = Append(calls, <<job, output>>)
       /\ cancel_left' = cancel_left \ {job}
       /\ IF ~output.started
            THEN /\ cancel_pc' = "crashed"
                 /\ cancel_err' = "FileNotFoundError"
                 /\ UNCHANGED <<selected_jobs, job_counter, widget>>
          ELSE IF output.stderr # <<>>
            THEN IF decode_fails(output.stderr)
                   THEN /\ cancel_pc' = "crashed"
                        /\ cancel_err' = "UnicodeDecodeError"
                        /\ UNCHANGED <<selected_jobs, job_counter, widget>>
                 ELSE /\ widget' = ErrorBox(decode(output.stderr))
                      /\ cancel_pc' = IF cancel_left' = {} THEN "idle" ELSE "loop"
                      /\ UNCHANGED <<selected_jobs, job_counter, cancel_err>>
          ELSE /\ selected_jobs' = selected_jobs \ {job}
               /\ UNCHANGED job_counter
               /\ cancel_pc' = IF cancel_left' = {} THEN "idle" ELSE "loop"
               /\ UNCHANGED <<widget, cancel_err>>
  /\ UNCHANGED cancel_set
  /\ UNCHANGED <<filter_str, detail, coreVars, configVars, fnVars, uiVars>>

\* One pass of the loop, over the next job of the copy in the set's order:
\* Inspector.cancel_job, then the error box or the removal.  An exception
\* leaves the loop and the callback.
CancelJob ==
  /\ cancel_pc = "loop"
  /\ \E job \in cancel_left : \E output \in ScancelRuns(job) :
       /\ calls' = Append(calls, <<job, output>>)
       /\ cancel_left' = cancel_left \ {job}
       /\ IF ~output.started
            THEN /\ cancel_pc' = "crashed"
                 /\ cancel_err' = "FileNotFoundError"
                 /\ UNCHANGED <<selected_jobs, job_counter, widget>>
          ELSE IF output.stderr # <<>>
            THEN IF decode_fails(output.stderr)
                   THEN /\ cancel_pc' = "crashed"
                        /\ cancel_err' = "UnicodeDecodeError"
                        /\ UNCHANGED <<selected_jobs, job_counter, widget>>
                 ELSE /\ widget' = ErrorBox(decode(output.stderr))
                      /\ cancel_pc' = IF cancel_left' = {} THEN "idle" ELSE "loop"
                      /\ UNCHANGED <<selected_jobs, job_counter, cancel_err>>
          ELSE /\ selected_jobs' = selected_jobs \ {job}
               /\ job_counter' = Cardinality(selected_jobs')
               /\ cancel_pc' = IF cancel_left' = {} THEN "idle" ELSE "loop"
               /\ UNCHANGED <<widget, cancel_err>>
  /\ UNCHANGED cancel_set
  /\ UNCHANGED <<filter_str, detail, coreVars, configVars, fnVars, uiVars>>

NextCancel ==
  \/ \E job \in RowJobIds : ToggleSelected(job)
  \/ KeyBackspace
  \/ KeyC
  \/ _return_to_top
  \/ clear_selection
  \/ cancel_selected_jobs
  \/ CancelJob

SpecCancel == Init /\ [][NextCancel]_vars

(***************************************************************************)
(* The parsers and build_squeue_list on their own, applied to texts laid   *)
(* out from a header and rows of tokens.                                   *)
(***************************************************************************)
\* The data rows of a text.
MaxRows == 2

Tok(atom) == <<atom>>

HeaderChoices ==
  { <<>>,
    <<Tok("JOBID")>>,
    <<Tok("JOBID"), Tok("ST")>>,
    <<Tok("JOBID"), Tok("USER"), Tok("STATE")>>,
    <<Tok("JOBID"), Tok("JOBID")>> }

RowChoices ==
  { <<>>,
    <<Tok("303")>>,
    <<Tok("202"), Tok("R")>>,
    <<Tok("201"), <<"PEND", "ING">>>>,
    <<Tok("101"), Tok("alice"), Tok("RUNNING")>>,
    <<Tok("102"), Tok("bob"), Tok("PENDING")>> }

RowSeqs == UNION {[1..n -> RowChoices] : n \in 0..MaxRows}

\* How a line is laid out: what separates its tokens, what precedes the
\* first and follows the last.
Layouts == {"plain", "tabs", "cr"}
Separator(layout) == IF layout = "tabs" THEN <<"\t", " ">> ELSE <<" ">>
Lead(layout) == IF layout = "tabs" THEN <<" ">> ELSE <<>>
Trail(layout) == CASE layout = "tabs" -> <<" ">> [] layout = "cr" -> <<"\r">> [] OTHER -> <<>>

\* Filter strings typed into the search box.
Filters == {<<>>, <<"bob">>, <<"Bob">>, <<"ING">>, <<"PEND", "ING">>, <<"R">>}

RECURSIVE join_tokens(_, _)
join_tokens(tokens, sep) ==
  IF tokens = <<>> THEN <<>>
  ELSE IF Len(tokens) = 1 THEN tokens[1]
  ELSE tokens[1] \o sep \o join_tokens(Tail(tokens), sep)

render_line(tokens, layout) ==
  Lead(layout) \o join_tokens(tokens, Separator(layout)) \o Trail(layout)

RECURSIVE render_lines(_, _)
render_lines(lines, layout) ==
  IF lines = <<>> THEN <<>>
  ELSE render_line(lines[1], layout) \o <<"\n">> \o render_lines(Tail(lines), layout)

\* The stdout of a command that prints the header and the rows, each line
\* ended by a newline, and then ends the text with g.newlines newlines in
\* all: 1 as squeue does, 2 with a blank line after the rows, 0 with the
\* last line cut short.
render(g) ==
  LET lines == render_lines(<<g.header>> \o g.rows, g.layout)
  IN  CASE g.newlines = 0 -> SubSeq(lines, 1, Len(lines) - 1)
        [] g.newlines = 1 -> lines
        [] OTHER -> lines \o <<"\n">>

\* The parsers are static methods: no Inspector and no Tui is involved.
InitParse ==
  /\ NoInspector
  /\ NotConstructed
  /\ args = DefaultArgs
  /\ SelectInit
  /\ UiInit
  /\ given \in [header : HeaderChoices, rows : RowSeqs, layout : Layouts,
                newlines : 0..2]
  /\ parsed_squeue = NotApplied
  /\ parsed_sinfo = NotApplied
  /\ jstrs = NotListed
  /\ OptsIdle

\* Inspector.parse_squeue_output(render(given))
ApplyParseSqueue ==
  /\ parsed_squeue.status = "none"
  /\ parsed_squeue' =
       IF parse_fails(render(given))
         THEN [status |-> "IndexError", jobs |-> <<>>, header |-> <<>>]
       ELSE [status |-> "ok",
             jobs   |-> parse_squeue_output(render(given)).jobs,
             header |-> parse_squeue_output(render(given)).header]
  /\ UNCHANGED <<given, parsed_sinfo, jstrs>>
  /\ UNCHANGED <<coreVars, configVars, selectVars, optsVars, uiVars>>

\* Inspector.parse_sinfo_output(render(given))
ApplyParseSinfo ==
  /\ parsed_sinfo.status = "none"
  /\ parsed_sinfo' =
       IF parse_fails(render(given))
         THEN [status |-> "IndexError", jobs |-> <<>>, header |-> <<>>]
       ELSE [status |-> "ok",
             jobs   |-> parse_sinfo_output(render(given)).strs,
             header |-> parse_sinfo_output(render(given)).header]
  /\ UNCHANGED <<given, parsed_squeue, jstrs>>
  /\ UNCHANGED <<coreVars, configVars, selectVars, optsVars, uiVars>>

\* The row build_squeue_list makes of a job: the text of every header
\* column, the job_id, and whether it is drawn as selected.
SelectableColumns(j, header, selected) ==
  [job |-> j,
   texts |-> [n \in 1..Len(header) |-> j[header[n]]],
   JOBID |-> j[<<"JOBID">>],
   selected |-> j[<<"JOBID">>] \in selected]

\* j.attrs[h] raises KeyError for a job without the column h, and
\* j.attrs["JOBID"] for a matching job without a JOBID.
squeue_list_fails(joblist, header, s) ==
  \E k \in 1..Len(joblist) :
     IF row_fails(joblist[k], header) THEN TRUE
     ELSE any_in(s, joblist[k], header) /\ <<"JOBID">> \notin DOMAIN joblist[k]

\* Tui.build_squeue_list over a job list and a header no refresh replaces
\* meanwhile.
build_squeue_list(joblist, header, s, selected) ==
  LET kept == SelectSeq(joblist, LAMBDA j : any_in(s, j, header))
  IN  [k \in 1..Len(kept) |-> SelectableColumns(kept[k], header, selected)]

\* Tui.build_squeue_list with filter_str = s on the parsed jobs.
ApplyBuildList(s) ==
  /\ parsed_squeue.status = "ok"
  /\ jstrs.status = "none"
  /\ jstrs' =
       IF squeue_list_fails(parsed_squeue.jobs, parsed_squeue.header, s)
         THEN [status |-> "KeyError", rows |-> <<>>, filter |-> s]
       ELSE [status |-> "ok",
             rows   |-> build_squeue_list(parsed_squeue.jobs, parsed_squeue.header, s, {}),
             filter |-> s]
  /\ UNCHANGED <<given, parsed_squeue, parsed_sinfo>>
  /\ UNCHANGED <<coreVars, configVars, selectVars, optsVars, uiVars>>

NextParse ==
  \/ ApplyParseSqueue
  \/ ApplyParseSinfo
  \/ \E s \in Filters : ApplyBuildList(s)

SpecParse == InitParse /\ [][NextParse]_vars

(***************************************************************************)
(* Properties of the snapshot under the two threads                        *)
(***************************************************************************)
InGetJobs(t) == pc[t] \in {"iter", "run", "store_jobs", "store_header"}

PollerEnded == pc[Poller] \in {"done", "dead"}

\* C1: whatever the interleaving of a refresh with build_squeue_list, the
\* job list the reader iterates and every header it reads with it come
\* from the same refresh: never the list of one and the header of another.
C1_ReaderSeesOneSnapshot ==
  (r_jobs # None /\ r_hdr # None) => r_jobs = r_hdr

\* C2: whatever the interleaving of the filter toggles with a refresh of
\* the polling thread, building the command never fails because the
\* mapping changed, and the argv run is the argv of the option mapping as
\* it stood at some moment of the build.
C2_ToggleNeverDisturbsBuild ==
  /\ err[Poller] # "RuntimeError"
  /\ pc[Poller] = "run" =>
       cmd[Poller] \in {build_s_cmd("squeue", m, squeue_formopts) : m \in it_maps}

\* C3: a refresh of the polling thread that fails does not end the thread.
C3_FailedRefreshKeepsPolling ==
  err[Poller] # None => pc[Poller] # "dead"

\* C4: once a manual poll and a poll of the polling thread that overlapped
\* have both completed, the stored job list and the stored header were
\* produced by the same call.
C4_OverlappingRefreshesAgree ==
  (\A t \in Threads : ~InGetJobs(t)) => jobs = squeue_header

\* C5: a reader that captured the job list before a concurrent refresh
\* completes iterates exactly the records the list held when captured, and
\* no step changes the content of a list that has been published.
C5_Iterates ==
  r_jobs # None =>
    /\ heap[r_jobs].live
    /\ heap[r_jobs].jobs = r_snap
    /\ r_seen = SubSeq(r_snap, 1, r_idx)
    /\ pc[Main] = "r_end" => r_seen = r_snap

C5_NeverMutated ==
  \A o \in {jobs, squeue_header, r_jobs, r_hdr} \ {None} :
    heap'[o] = heap[o] \/ ~heap'[o].live

C5_PublishedListIsImmutable == []C5_Iterates /\ [][C5_NeverMutated]_vars

\* The reader has finished a list of two jobs that a refresh replaced,
\* list and header, while it was being iterated.
C5_Witness ==
  /\ pc[Main] = "r_end"
  /\ Len(r_seen) > 1
  /\ jobs # r_jobs
  /\ squeue_header # r_jobs

\* C6: a refresh of the jobs or of the nodes that fails (the command cannot
\* start, its output is not UTF-8, or it has no line to parse) leaves the
\* stored lists and headers as they were, and the exception leaves the
\* refresh to its caller.
RefreshErrors == {"FileNotFoundError", "UnicodeDecodeError", "IndexError"}

C6_Step ==
  \A t \in Threads :
    (err[t] = None /\ err'[t] \in RefreshErrors) =>
      /\ jobs' = jobs /\ squeue_header' = squeue_header
      /\ heap'[jobs] = heap[jobs] /\ heap'[squeue_header] = heap[squeue_header]
      /\ sinfo' = sinfo /\ sinfo_header' = sinfo_header
      /\ pc'[t] \in {"dead", "crashed"}

C6_FailedRefreshKeepsSnapshot == [][C6_Step]_vars

\* A manual poll of the nodes has failed in the UI thread, and in the
\* polling thread a poll of the jobs has failed after an earlier one had
\* replaced the job list.
C6_Witness ==
  /\ err[Main] \in RefreshErrors
  /\ view = "sinfo"
  /\ err[Poller] \in RefreshErrors
  /\ jobs # ObjOrder[1]
  /\ jobs = squeue_header

\* C7: once the stop event is set the polling thread can always take its
\* next step, every step brings it closer to its end (what is left is at
\* most the refresh it is in, one sleep and one test of the event), and
\* quit leaves the main loop only when the thread has ended.
PollerRank ==
  CASE pc[Poller] = "iter" -> 6 + (it[Poller].used - it[Poller].pos)
    [] pc[Poller] = "run" -> 5
    [] pc[Poller] = "store_jobs" -> 4
    [] pc[Poller] = "store_header" -> 3
    [] pc[Poller] = "sleep" -> 2
    [] pc[Poller] = "check" -> 1
    [] OTHER -> 0

C7_Stops ==
  /\ pc[Main] = "exited" => PollerEnded
  /\ (stop_event /\ ~PollerEnded) => ENABLED PollerNext

C7_Approaches ==
  (stop_event /\ (pc'[Poller] # pc[Poller] \/ cmd'[Poller] # cmd[Poller]))
    => PollerRank' < PollerRank

C7_StopEndsPoller ==
  /\ []C7_Stops
  /\ [][C7_Approaches]_vars
  /\ stop_event ~> PollerEnded

\* Quit has left the main loop after the thread, stopped during a refresh,
\* finished that refresh.
C7_Witness ==
  /\ pc[Main] = "exited"
  /\ pc[Poller] = "done"
  /\ jobs # ObjOrder[1]

(***************************************************************************)
(* Properties of cancelling a selection                                    *)
(***************************************************************************)
\* The runs of scancel on a job in this cancel, by their place in calls.
RunsOn(job, cs) == {i \in DOMAIN cs : cs[i][1] = job}

\* The jobs whose run of scancel wrote to stderr.
FailedJobs(cs) == {cs[i][1] : i \in {n \in DOMAIN cs : cs[n][2].stderr # <<>>}}

\* scancel started every time this cancel ran it.
AllStarted(cs) == \A i \in DOMAIN cs : cs[i][2].started

C8_Step ==
  (cancel_pc = "loop" /\ cancel_pc' # "loop" /\ AllStarted(calls')) =>
     /\ \A job \in cancel_set : Cardinality(RunsOn(job, calls')) = 1
     /\ selected_jobs' = FailedJobs(calls')

\* C8: when cancel_selected_jobs is over and scancel could be started each
\* time, scancel has run exactly once on every job of the selection it was
\* called with, whatever the runs before it wrote to stderr, and the
\* selection is exactly the jobs whose run wrote to stderr.
C8_CancelRunsOnEveryJob == [][C8_Step]_vars

\* The error text the user is shown is the one of the widget on display
\* when the callback returns.
Presented(error_msg, w) == w = ErrorBox(error_msg)

C9_Step ==
  (cancel_pc = "loop" /\ cancel_pc' = "idle") =>
     \A i \in DOMAIN calls' :
        calls'[i][2].stderr # <<>> => Presented(decode(calls'[i][2].stderr), widget')

\* C9: when cancel_selected_jobs returns, the stderr text of every job
\* whose run of scancel wrote to stderr is on display: none was replaced
\* by the text of another job.
C9_EveryFailureIsPresented == [][C9_Step]_vars

(***************************************************************************)
(* Properties of the constructor                                           *)
(***************************************************************************)
\* A format mapping the caller passed has exactly one item.
OneIfSupplied(m) == m # None => Len(m) = 1

\* A stored format mapping is set and has exactly one item.
StoredOne(m) == m # None /\ Len(m) = 1

\* C10: an Inspector whose construction succeeded was given only format
\* mappings of exactly one item, holds a format mapping of one item for
\* each of get_jobs, get_info and get_job_details, and no call on it
\* raises while it builds its command.
C10_ConstructedBuildsEveryCommand ==
  init_pc = "constructed" =>
     /\ OneIfSupplied(args.squeue_formopts)
     /\ OneIfSupplied(args.sinfo_formopts)
     /\ OneIfSupplied(args.detail_formopts)
     /\ StoredOne(squeue_formopts)
     /\ StoredOne(sinfo_formopts)
     /\ StoredOne(detail_formopts)
     /\ build_err = None

C10_Witness ==
  /\ init_pc = "constructed"
  /\ args.squeue_formopts # None
  /\ args.sinfo_formopts # None
  /\ built = {"get_jobs", "get_info", "get_job_details"}
  /\ build_err = None

\* A format mapping the caller passed has no item, or two or more.
BadSize(m) == m # None /\ Len(m) # 1

BadSupplied(a) ==
  BadSize(a.squeue_formopts) \/ BadSize(a.sinfo_formopts) \/ BadSize(a.detail_formopts)

\* C11: once Inspector.__init__ has run on arguments with a format mapping
\* whose size is not 1, it has raised and no call was made on an Inspector;
\* and every format mapping build_s_cmd was ever called with has exactly
\* one item.
C11_BadMappingFailsConstruction ==
  /\ (init_pc # "new" /\ BadSupplied(args)) => (init_pc = "failed" /\ built = {})
  /\ \A m \in handed : Len(m) = 1

\* The constructor has raised on a node mapping of two items, given after a
\* job mapping of one.
C11_Witness ==
  /\ init_pc = "failed"
  /\ init_err = "AssertionError"
  /\ args.squeue_formopts # None
  /\ ~BadSize(args.squeue_formopts)
  /\ args.sinfo_formopts # None
  /\ Len(args.sinfo_formopts) = 2
  /\ handed = {}

(***************************************************************************)
(* Properties of the parsers and of the filtered list                      *)
(***************************************************************************)
\* The text is a header line with a column, data lines with a token each,
\* and exactly one blank line after them: it ends in two newlines.
EndsWithBlankLine(g) ==
  /\ g.newlines = 2
  /\ g.header # <<>>
  /\ \A k \in 1..Len(g.rows) : g.rows[k] # <<>>

\* The jobs of the rows of a list, in its order.
ListedJobs(l) == [k \in 1..Len(l.rows) |-> l.rows[k].job]

ExampleText(g) ==
  /\ g.header = <<Tok("JOBID"), Tok("USER"), Tok("STATE")>>
  /\ g.rows = << <<Tok("101"), Tok("alice"), Tok("RUNNING")>>,
                 <<Tok("102"), Tok("bob"), Tok("PENDING")>> >>
  /\ g.layout = "plain"
  /\ g.newlines = 2

\* C12: parse_squeue_output applied to a header line, N data lines and one
\* trailing blank line returns exactly N jobs; and the list built with the
\* filter "bob" from the text JOBID USER STATE / 101 alice RUNNING /
\* 102 bob PENDING / blank line is exactly the second job.
C12_BlankLineIsDiscarded ==
  /\ (parsed_squeue.status # "none" /\ EndsWithBlankLine(given)) =>
        /\ parsed_squeue.status = "ok"
        /\ Len(parsed_squeue.jobs) = Len(given.rows)
  /\ (jstrs.status # "none" /\ jstrs.filter = <<"bob">> /\ ExampleText(given)) =>
        /\ jstrs.status = "ok"
        /\ ListedJobs(jstrs) = <<parsed_squeue.jobs[2]>>

\* Row k of the text has a record, and fewer tokens than the header.
ShortRow(p, g, k) ==
  /\ p.status = "ok"
  /\ k \in DOMAIN p.jobs
  /\ k \in DOMAIN g.rows
  /\ Len(g.rows[k]) < Len(g.header)

\* The record holds the first tokens of the header as keys, each with the
\* row's token at its position, and none of the header's tokens after them.
HoldsFirstKeys(record, header, tokens) ==
  /\ DOMAIN record = {header[i] : i \in 1..Len(tokens)}
  /\ \A i \in 1..Len(tokens) : record[header[i]] = tokens[i]
  /\ \A i \in (Len(tokens) + 1)..Len(header) : header[i] \notin DOMAIN record

\* The header names no column twice.
DistinctHeader(g) == \A i, k \in 1..Len(g.header) : g.header[i] = g.header[k] => i = k

\* C21 as stated: for a data row of m tokens under a header of K > m
\* tokens, the record holds exactly the first m header keys with the row's
\* tokens at their positions, and the other K - m header keys are absent.
C21_ShortRowLeavesKeysUnset ==
  \A p \in {parsed_squeue, parsed_sinfo} :
     \A k \in 1..MaxRows :
        ShortRow(p, given, k) => HoldsFirstKeys(p.jobs[k], given.header, given.rows[k])

\* C21, amended: for a data row of m tokens under a header of K > m
\* distinct tokens, the record holds exactly the first m header keys with
\* the row's tokens at their positions, and the other K - m header keys
\* are absent, none of them present with an empty or default value.
C21_ShortRowUnderDistinctHeader ==
  \A p \in {parsed_squeue, parsed_sinfo} :
     \A k \in 1..MaxRows :
        (ShortRow(p, given, k) /\ DistinctHeader(given)) =>
           HoldsFirstKeys(p.jobs[k], given.header, given.rows[k])

\* A row of two tokens has been parsed under a header of three columns.
C21_Witness ==
  /\ parsed_squeue.status = "ok"
  /\ DistinctHeader(given)
  /\ Len(given.header) = 3
  /\ \E k \in DOMAIN parsed_squeue.jobs \cap DOMAIN given.rows :
        /\ Len(given.rows[k]) = 2
        /\ DOMAIN parsed_squeue.jobs[k] = {Tok("JOBID"), Tok("USER")}

(***************************************************************************)
(* The option mapping on its own: an Inspector built from a configured     *)
(* squeue_getopts, whose filter toggles and command builder are called in  *)
(* any order.  No thread runs and no Tui exists.                           *)
(***************************************************************************)
MaxOpts == 2
MaxToggles == 2

\* The flag/argument pairs a configuration file can hold.
OptItems ==
  {<<"-u", user>>, <<"-u", "bob">>, <<"--state", "RUNNING">>,
   <<"--state", "PENDING">>, <<"-p", "gpu">>}

\* A dict holds a key once and keeps the order of insertion.
IsDict(opts) == \A i, k \in 1..Len(opts) : opts[i][1] = opts[k][1] => i = k

RECURSIVE ItemSeqs(_)
ItemSeqs(n) ==
  IF n = 0 THEN {<<>>}
  ELSE ItemSeqs(n - 1) \cup {Append(opts, item) : opts \in ItemSeqs(n - 1), item \in OptItems}

OptsChoices == {opts \in ItemSeqs(MaxOpts) : IsDict(opts)}

InitOpts ==
  /\ squeue_getopts \in OptsChoices
  /\ NoSnapshot
  /\ squeue_formopts = default_squeue_formopts
  /\ sinfo_formopts = default_sinfo_formopts
  /\ detail_formopts = default_detail_formopts
  /\ sinfo_getopts = <<>>
  /\ args = [DefaultArgs EXCEPT !.squeue_getopts = squeue_getopts]
  /\ init_pc = "constructed"
  /\ init_err = None
  /\ built = {}
  /\ build_err = None
  /\ call_err = None
  /\ handed = {}
  /\ SelectInit
  /\ UiInit
  /\ ParseIdle
  /\ OptsIdle

SnapshotVars ==
  <<jobs, squeue_header, sinfo, sinfo_header, heap, stop_event, view, pc, cmd, it,
    res, err, r_jobs, r_idx, r_hdr, r_snap, r_seen, it_maps, polls, sleeps, polled, events>>

\* Inspector.toggle_user_filter, called directly.
ToggleUserFilter ==
  /\ Len(toggles) < MaxToggles
  /\ squeue_getopts' = toggle_user_filter(squeue_getopts)
  /\ toggles' = Append(toggles, "user")
  /\ UNCHANGED <<SnapshotVars, argv, configVars, selectVars, parseVars, uiVars>>

\* Inspector.toggle_running_filter, called directly.
ToggleRunningFilter ==
  /\ Len(toggles) < MaxToggles
  /\ squeue_getopts' = toggle_running_filter(squeue_getopts)
  /\ toggles' = Append(toggles, "running")
  /\ UNCHANGED <<SnapshotVars, argv, configVars, selectVars, parseVars, uiVars>>

\* Inspector.build_s_cmd, called with the current mapping or with no mapping.
BuildCmd(base_cmd, getopts, formopts) ==
  /\ argv' = [status |-> IF build_fails(formopts) THEN "IndexError" ELSE "ok",
              base_cmd |-> base_cmd,
              getopts |-> IF getopts = None THEN <<>> ELSE getopts,
              formopts |-> IF formopts = None THEN <<>> ELSE formopts,
              cmd |-> IF build_fails(formopts) THEN <<>>
                      ELSE build_s_cmd(base_cmd, getopts, formopts)]
  /\ UNCHANGED <<coreVars, toggles, configVars, selectVars, parseVars, uiVars>>

NextOpts ==
  \/ ToggleUserFilter
  \/ ToggleRunningFilter
  \/ \E base_cmd \in {"squeue", "sinfo"}, formopts \in FormoptsArgs :
       \/ BuildCmd(base_cmd, squeue_getopts, formopts)
       \/ BuildCmd(base_cmd, None, formopts)

SpecOpts == InitOpts /\ [][NextOpts]_vars

\* C13: calling the same toggle twice in a row leaves the option mapping as it
\* was configured (same keys, same values, same order), also when the
\* configuration already held the flag, at any position and with any value.
C13_ToggleTwiceRestores ==
  (toggles \in {<<"user", "user">>, <<"running", "running">>}) =>
     squeue_getopts = args.squeue_getopts

\* C19: build_s_cmd returns the base command, then each option's flag and value
\* in the mapping's insertion order, then the single format flag and its value
\* last; with no options, the base command and the format pair only.
C19_ArgvOrder ==
  (argv.status = "ok" /\ Len(argv.formopts) = 1) =>
     LET n == Len(argv.getopts)
     IN  /\ Len(argv.cmd) = 2 * n + 3
         /\ argv.cmd[1] = argv.base_cmd
         /\ \A i \in 1..n : /\ argv.cmd[2 * i] = argv.getopts[i][1]
                            /\ argv.cmd[2 * i + 1] = argv.getopts[i][2]
         /\ argv.cmd[2 * n + 2] = argv.formopts[1][1]
         /\ argv.cmd[2 * n + 3] = argv.formopts[1][2]

C19_Witness ==
  /\ argv.status = "ok"
  /\ argv.base_cmd = "sinfo"
  /\ Len(argv.formopts) = 1
  /\ Len(argv.getopts) = 2
  /\ argv.getopts[1][1] = "-p"
  /\ toggles # <<>>

\* The text has no blank line: every line holds a token and one newline ends it.
NoBlankLine(g) ==
  /\ g.newlines = 1
  /\ g.header # <<>>
  /\ \A k \in 1..Len(g.rows) : g.rows[k] # <<>>

\* A record has s as a substring of at least one of its field values.
HasField(s, record) == \E h \in DOMAIN record : IsSubstring(s, record[h])

\* C14: whatever parse produced from a text of a header line and data lines,
\* and whatever the filter string s, the display list holds exactly the
\* records with s inside at least one field value, in the order of the
\* snapshot; with the empty filter string, all records.
C14_ListIsTheMatchingSubsequence ==
  (jstrs.status # "none" /\ NoBlankLine(given)) =>
     /\ jstrs.status = "ok"
     /\ ListedJobs(jstrs) =
          SelectSeq(parsed_squeue.jobs, LAMBDA record : HasField(jstrs.filter, record))

\* A header of K distinct tokens and rows of exactly K tokens each, every line
\* ended by one newline.
Rectangular(g) ==
  /\ g.newlines = 1
  /\ \A i, k \in 1..Len(g.header) : g.header[i] = g.header[k] => i = k
  /\ \A n \in 1..Len(g.rows) : Len(g.rows[n]) = Len(g.header)

\* The records are the rows of g, keyed by the header of g position by position.
RecordsOf(records, g) ==
  /\ Len(records) = Len(g.rows)
  /\ \A n \in 1..Len(g.rows) :
       /\ DOMAIN records[n] = {g.header[k] : k \in 1..Len(g.header)}
       /\ Cardinality(DOMAIN records[n]) = Len(g.header)
       /\ \A k \in 1..Len(g.header) : records[n][g.header[k]] = g.rows[n][k]

\* C20: from the text of a header of K distinct tokens and N rows of exactly K
\* tokens, parse_squeue_output and parse_sinfo_output each yield N records in
\* row order, each with exactly the K header keys and the row's tokens at
\* their positions, and the header in its order.
C20_ParseRoundTrip ==
  \A p \in {parsed_squeue, parsed_sinfo} :
     (p.status # "none" /\ Rectangular(given)) =>
        /\ p.status = "ok"
        /\ p.header = given.header
        /\ RecordsOf(p.jobs, given)

C20_Witness ==
  /\ parsed_squeue.status = "ok"
  /\ parsed_sinfo.status = "ok"
  /\ Rectangular(given)
  /\ given.layout = "tabs"
  /\ Len(given.header) = 3
  /\ Len(given.rows) = 2
  /\ given.rows[1] # given.rows[2]

(***************************************************************************)
(* Properties of the polling loop                                          *)
(***************************************************************************)
\* The polling thread is inside get_jobs.
PollerRefreshing == pc[Poller] \in {"iter", "run", "store_jobs", "store_header"}

\* Refreshes and sleeps of the polling thread alternate, the refresh first.
C18_Alternation ==
  /\ (PollerRefreshing \/ pc[Poller] \in {"sleep", "dead"}) => polls = sleeps + 1
  /\ pc[Poller] \in {"check", "done"} => polls = sleeps

\* A refresh starts at the head of the loop, with the stop event clear, the
\* previous refresh over and one sleep behind each refresh made; a sleep
\* starts when a refresh has returned; the loop is left when the stop event
\* is seen set.
C18_Step ==
  /\ polls' # polls =>
       /\ pc[Poller] = "check" /\ ~stop_event
       /\ cmd[Poller] = <<>> /\ res[Poller] = None /\ it[Poller] = NoIter
       /\ polls' = polls + 1 /\ sleeps = polls
       /\ pc'[Poller] = "iter"
  /\ (pc'[Poller] = "sleep" /\ pc[Poller] # "sleep") =>
       pc[Poller] = "store_header" /\ sleeps' = sleeps
  /\ sleeps' # sleeps =>
       /\ pc[Poller] = "sleep" /\ pc'[Poller] = "check"
       /\ sleeps' = sleeps + 1 /\ polls' = polls
  /\ (pc[Poller] = "check" /\ pc'[Poller] # "check") =>
       IF stop_event THEN pc'[Poller] = "done" /\ polls' = polls
       ELSE pc'[Poller] = "iter" /\ polls' = polls + 1

\* C18: the polling thread repeats get_jobs, then sleep, until it sees the
\* stop event set: between two consecutive refreshes it makes there is
\* exactly one sleep, and it starts no refresh while its previous one is in
\* progress.
C18_PollerAlternates == []C18_Alternation /\ [][C18_Step]_vars

\* The thread sleeps after its second refresh, having slept once between the two.
C18_Witness ==
  /\ polls = 2
  /\ sleeps = 1
  /\ pc[Poller] = "sleep"
  /\ ~stop_event

(***************************************************************************)
(* Properties of the filter toggles                                        *)
(***************************************************************************)
\* The command holds the flag followed by the value.
HasPair(command, flag, value) ==
  \E i \in 1..(Len(command) - 1) : command[i] = flag /\ command[i + 1] = value

\* The pairs the two toggles insert and delete.
ToggledPairs == {<<"-u", user>>, <<"--state", "RUNNING">>}

\* A step that changes the option mapping changes nothing else the
\* Inspector stores, and not the selection.
C17_Frame ==
  squeue_getopts' # squeue_getopts =>
     /\ UNCHANGED <<jobs, squeue_header, sinfo, sinfo_header, heap>>
     /\ UNCHANGED <<squeue_formopts, sinfo_formopts, detail_formopts, sinfo_getopts>>
     /\ UNCHANGED selected_jobs

\* The get_jobs of the polling thread that began with the mapping
\* polled.getopts has run a command that holds a toggled pair iff that
\* mapping holds it, and one that began after a toggle has not failed to
\* build its command.
C17_Issued ==
  /\ pc[Poller] = "run" =>
       \A pair \in ToggledPairs :
          HasPair(cmd[Poller], pair[1], pair[2]) <=> pair[1] \in Keys(polled.getopts)
  /\ ~(pc[Poller] = "dead" /\ err[Poller] = "RuntimeError" /\ polled.toggled > 0)

\* C17: a filter toggle changes only squeue_getopts (the stored job list and
\* header, node list and header and the selection stay as they are), and
\* the first get_jobs that starts after it runs a command that holds the
\* toggled pair iff the toggle inserted it.
C17_ToggleTakesEffectOnNextRefresh == []C17_Issued /\ [][C17_Frame]_vars

(***************************************************************************)
(* The dashboard with each callback of the UI thread, and each get_jobs of *)
(* the polling thread, taken as one step: selecting and cancelling as      *)
(* above, together with the polls, the filter toggles, the views, the      *)
(* search box and the detail and tail boxes.                               *)
(***************************************************************************)
\* A get_jobs that would also store an empty node list.
get_jobs_and_info(t, run, after) ==
  IF refresh_error(run) # None
    THEN /\ Raised(t, refresh_error(run))
         /\ UNCHANGED heap
    ELSE /\ jobs' = ParseTarget
         /\ squeue_header' = ParseTarget
         /\ heap' = Collect([heap EXCEPT ![ParseTarget] =
                                Object(parse_squeue_output(decode(run.stdout)))],
                            LiveRefs(ParseTarget, ParseTarget, res, r_jobs, r_hdr))
         /\ pc' = [pc EXCEPT ![t] = after]
         /\ sinfo' = <<>>
         /\ UNCHANGED <<cmd, it, err, sinfo_header>>

\* Inspector.get_jobs by thread t, given what squeue returns: the output is
\* decoded, parsed into a new list and stored, and t goes on at after; or
\* the exception leaves get_jobs and its caller.
get_jobs(t, run, after) ==
  IF refresh_error(run) # None
    THEN /\ Raised(t, refresh_error(run))
         /\ UNCHANGED heap
    ELSE /\ jobs' = ParseTarget
         /\ squeue_header' = ParseTarget
         /\ heap' = Collect([heap EXCEPT ![ParseTarget] =
                                Object(parse_squeue_output(decode(run.stdout)))],
                            LiveRefs(ParseTarget, ParseTarget, res, r_jobs, r_hdr))
         /\ pc' = [pc EXCEPT ![t] = after]
         /\ UNCHANGED <<cmd, it, err, sinfo, sinfo_header>>

\* Inspector.get_info by the UI thread, given what sinfo returns.
get_info(run) ==
  IF refresh_error(run) # None
    THEN Raised(Main, refresh_error(run))
    ELSE /\ sinfo' = parse_sinfo_output(decode(run.stdout)).strs
         /\ sinfo_header' = parse_sinfo_output(decode(run.stdout)).header
         /\ UNCHANGED <<pc, cmd, it, err, jobs, squeue_header>>

\* A pass of the poller that would also drop from the selection the jobs
\* its refresh no longer lists.
PollerGetJobsPruning ==
  /\ pc[Poller] = "check"
  /\ ~stop_event
  /\ polls < MaxPolls
  /\ polls' = polls + 1
  /\ \E run \in SqueueRuns : get_jobs(Poller, run, "sleep")
  /\ selected_jobs' = IF pc'[Poller] = "sleep"
                        THEN {job \in selected_jobs :
                                \E k \in 1..Len(heap'[jobs'].jobs) :
                                   heap'[jobs'].jobs[k][<<"JOBID">>] = job}
                      ELSE selected_jobs
  /\ UNCHANGED <<squeue_getopts, stop_event, view, res, r_jobs, r_idx, r_hdr, r_snap,
                 r_seen, it_maps, sleeps, polled, events>>
  /\ UNCHANGED <<widget, job_counter, cancel_pc, cancel_set, cancel_left, calls,
                 cancel_err, filter_str, detail>>
  /\ UNCHANGED <<configVars, fnVars, uiVars>>

\* One pass of SlurmThread.run up to its sleep: the stop event is clear
\* and get_jobs runs to its end.
PollerGetJobs ==
  /\ pc[Poller] = "check"
  /\ ~stop_event
  /\ polls < MaxPolls
  /\ polls' = polls + 1
  /\ \E run \in SqueueRuns : get_jobs(Poller, run, "sleep")
  /\ UNCHANGED <<squeue_getopts, stop_event, view, res, r_jobs, r_idx, r_hdr, r_snap,
                 r_seen, it_maps, sleeps, polled, events>>
  /\ UNCHANGED <<configVars, selectVars, fnVars, uiVars>>

\* loop.remove_alarm(handle): the alarm is taken out when it is pending.
remove_alarm(pending) == IF pending > 0 THEN pending - 1 ELSE pending

\* Tui.draw_body raises what build_squeue_list or build_sinfo_list raises.
draw_body_fails ==
  IF view = "squeue"
    THEN squeue_list_fails(heap[jobs].jobs, heap[squeue_header].header, filter_str)
  ELSE sinfo_list_fails

\* A manual poll that sets the next alarm and leaves the pending one.
ManualPollKeepsAlarm ==
  /\ InLoop
  /\ Handle
  /\ IF view = "squeue"
       THEN \E run \in SqueueRuns : get_jobs(Main, run, "idle")
       ELSE /\ \E run \in SinfoRuns : get_info(run)
            /\ UNCHANGED heap
  /\ alarms' = IF pc'[Main] = "crashed" THEN alarms ELSE alarms + 1
  /\ UNCHANGED <<squeue_getopts, stop_event, view, res, r_jobs, r_idx, r_hdr, r_snap,
                 r_seen, it_maps, sleeps, polled>>
  /\ UNCHANGED <<footer, tail_handle, tail_alarms>>
  /\ UNCHANGED <<configVars, selectVars, fnVars>>

\* "p": get_jobs or get_info by the view, remove_alarm, update_top, which
\* sets the next alarm.  When the refresh raises, the alarm is left.
ManualPoll ==
  /\ InLoop
  /\ Handle
  /\ IF view = "squeue"
       THEN \E run \in SqueueRuns : get_jobs(Main, run, "idle")
       ELSE /\ \E run \in SinfoRuns : get_info(run)
            /\ UNCHANGED heap
  /\ alarms' = IF pc'[Main] = "crashed" THEN alarms ELSE remove_alarm(alarms) + 1
  /\ UNCHANGED <<squeue_getopts, stop_event, view, res, r_jobs, r_idx, r_hdr, r_snap,
                 r_seen, it_maps, sleeps, polled>>
  /\ UNCHANGED <<footer, tail_handle, tail_alarms>>
  /\ UNCHANGED <<configVars, selectVars, fnVars>>

\* The update_top alarm fires: Tui.update_top draws the body and sets the
\* next alarm.
update_top ==
  /\ InLoop
  /\ Handle
  /\ alarms > 0
  /\ IF draw_body_fails
       THEN /\ Raised(Main, "KeyError")
            /\ alarms' = alarms - 1
       ELSE /\ alarms' = (alarms - 1) + 1
            /\ UNCHANGED <<pc, cmd, it, err, jobs, squeue_header, sinfo, sinfo_header>>
  /\ UNCHANGED <<squeue_getopts, heap, stop_event, view, res, r_jobs, r_idx, r_hdr,
                 r_snap, r_seen, it_maps, sleeps, polled>>
  /\ UNCHANGED <<footer, tail_handle, tail_alarms>>
  /\ UNCHANGED <<configVars, selectVars, fnVars>>

\* "q": Tui._urwid_quit joins the polling thread, which ends at its next
\* test of the stop event, removes the alarm and leaves the main loop.
_urwid_quit ==
  /\ InLoop
  /\ Handle
  /\ stop_event' = TRUE
  /\ pc' = [pc EXCEPT ![Main] = "exited",
                      ![Poller] = IF @ \in {"check", "sleep"} THEN "done" ELSE @]
  /\ alarms' = remove_alarm(alarms)
  /\ UNCHANGED <<squeue_getopts, jobs, squeue_header, sinfo, sinfo_header, heap, view,
                 cmd, it, res, err, r_jobs, r_idx, r_hdr, r_snap, r_seen, it_maps,
                 sleeps, polled>>
  /\ UNCHANGED <<footer, tail_handle, tail_alarms>>
  /\ UNCHANGED <<configVars, selectVars, fnVars>>

\* "j" / "i": Tui._set_view sets the view and draws header and body.
_set_view(v) ==
  /\ InLoop
  /\ Handle
  /\ view' = v
  /\ UNCHANGED <<squeue_getopts, jobs, squeue_header, sinfo, sinfo_header, heap,
                 stop_event, pc, cmd, it, res, err, r_jobs, r_idx, r_hdr, r_snap,
                 r_seen, it_maps, sleeps, polled>>
  /\ UNCHANGED <<configVars, selectVars, fnVars, uiVars>>

\* The search box changes: Tui.update_filter_str stores the text and draws
\* the body.
update_filter_str(s) ==
  /\ InLoop
  /\ Handle
  /\ filter_str' = s
  /\ UNCHANGED <<selected_jobs, widget, job_counter, cancel_pc, cancel_set,
                 cancel_left, calls, cancel_err, detail>>
  /\ UNCHANGED <<squeue_getopts, jobs, squeue_header, sinfo, sinfo_header, heap,
                 stop_event, view, pc, cmd, it, res, err, r_jobs, r_idx, r_hdr,
                 r_snap, r_seen, it_maps, sleeps, polled>>
  /\ UNCHANGED <<configVars, fnVars, uiVars>>

\* The texts typed into the search box.
SearchTexts == {<<>>, <<"R">>, <<"303">>}

\* What squeue -j job_id may give back under detail_formopts: the header
\* and the job's row, a second row for a task of a job array, the header
\* alone when the job is gone, nothing, bytes that are not UTF-8; or squeue
\* cannot be started.
DetailHeader == <<"JOBID", " ", "STDOUT", "\n">>
DetailRow(job) == job \o <<" ", "/home/me/slurm.out", "\n">>

DetailRuns(job) ==
  {NotStarted} \cup
  {Completed(o, <<>>) : o \in {DetailHeader \o DetailRow(job),
                               DetailHeader \o DetailRow(job) \o DetailRow(job \o <<"_1">>),
                               DetailHeader, OutEmpty, OutBadUtf8}}

\* Inspector.get_job_details: the exception it raises on this result, or
\* None.  detail_info[0] raises IndexError on an empty list.
detail_error(run) ==
  IF refresh_error(run) # None THEN refresh_error(run)
  ELSE IF parse_squeue_output(decode(run.stdout)).jobs = <<>> THEN "IndexError"
  ELSE None

\* The Job get_job_details returns.
get_job_details(run) == parse_squeue_output(decode(run.stdout)).jobs[1]

InfoBox(job) == [kind |-> "info", text |-> job[<<"JOBID">>]]
TailBox(file_path) == [kind |-> "tail", text |-> file_path]

\* "d" on the row of job: Tui._inspect_detail.  Nothing catches what
\* get_job_details raises.
_inspect_detail(job) ==
  /\ InLoop
  /\ Handle
  /\ view = "squeue"
  /\ \E run \in DetailRuns(job) :
       /\ detail' = <<job, run>>
       /\ IF detail_error(run) # None
            THEN /\ Raised(Main, detail_error(run))
                 /\ UNCHANGED widget
          ELSE /\ widget' = IF widget = top THEN InfoBox(get_job_details(run)) ELSE widget
               /\ UNCHANGED <<pc, cmd, it, err, jobs, squeue_header, sinfo, sinfo_header>>
  /\ UNCHANGED <<selected_jobs, job_counter, cancel_pc, cancel_set, cancel_left, calls,
                 cancel_err, filter_str>>
  /\ UNCHANGED <<squeue_getopts, heap, stop_event, view, res, r_jobs, r_idx, r_hdr,
                 r_snap, r_seen, it_maps, sleeps, polled>>
  /\ UNCHANGED <<configVars, fnVars, uiVars>>

\* "t" on the row of job: Tui._inspect_tail, likewise; the tail box reads
\* the file named in the STDOUT column and, when it is put over the frame,
\* sets the first _tail_refresh alarm.
_inspect_tail(job) ==
  /\ InLoop
  /\ Handle
  /\ view = "squeue"
  /\ \E run \in DetailRuns(job) :
       /\ detail' = <<job, run>>
       /\ IF detail_error(run) # None
            THEN /\ Raised(Main, detail_error(run))
                 /\ UNCHANGED <<widget, tail_handle, tail_alarms>>
          ELSE /\ IF widget = top
                    THEN /\ widget' = TailBox(get_job_details(run)[<<"STDOUT">>])
                         /\ tail_handle' = "set"
                         /\ tail_alarms' = tail_alarms + 1
                  ELSE UNCHANGED <<widget, tail_handle, tail_alarms>>
               /\ UNCHANGED <<pc, cmd, it, err, jobs, squeue_header, sinfo, sinfo_header>>
  /\ UNCHANGED <<selected_jobs, job_counter, cancel_pc, cancel_set, cancel_left, calls,
                 cancel_err, filter_str>>
  /\ UNCHANGED <<squeue_getopts, heap, stop_event, view, res, r_jobs, r_idx, r_hdr,
                 r_snap, r_seen, it_maps, sleeps, polled>>
  /\ UNCHANGED <<footer, alarms, configVars, fnVars>>

\* A _tail_refresh alarm fires: Tui._tail_refresh reaches through the
\* overlay on display for the TailText of a tail box, refreshes it and sets
\* the next alarm.  Under a prompt the widget it reaches is a urwid.Text,
\* which has no refresh.
_tail_refresh ==
  /\ InLoop
  /\ Handle
  /\ tail_alarms > 0
  /\ IF widget.kind = "tail"
       THEN /\ tail_alarms' = (tail_alarms - 1) + 1
            /\ tail_handle' = "set"
            /\ UNCHANGED <<pc, cmd, it, err, jobs, squeue_header, sinfo, sinfo_header>>
       ELSE /\ tail_alarms' = tail_alarms - 1
            /\ Raised(Main, "AttributeError")
            /\ UNCHANGED tail_handle
  /\ UNCHANGED <<squeue_getopts, heap, stop_event, view, res, r_jobs, r_idx, r_hdr,
                 r_snap, r_seen, it_maps, sleeps, polled>>
  /\ UNCHANGED <<footer, alarms, configVars, selectVars, fnVars>>

\* The squeue view with the poller refreshing it, and the "d" and "t" keys on
\* its rows.
NextDetail ==
  \/ PollerGetJobs
  \/ PollerSleep
  \/ _return_to_top
  \/ \E job \in RowJobIds : _inspect_detail(job)
  \/ \E job \in RowJobIds : _inspect_tail(job)

SpecDetail == Init /\ [][NextDetail]_vars

\* The detail response has a header line and at least one data row.
HasRows(run) == refresh_error(run) = None /\ detail_error(run) = None

\* The detail response has no rows: a header alone, or nothing at all.
NoRows(run) == run.started /\ run.stdout \in {DetailHeader, OutEmpty}

\* The first record of the response, as the parser lays it out.
FirstRecord(run) ==
  zip_dict(split_whitespace(output_lines(decode(run.stdout))[1]),
           split_whitespace(output_lines(decode(run.stdout))[2]))

\* C15: a detail query whose response has a data row yields the first
\* parsed record, which the detail and the tail box show; a detail query
\* whose response has no rows (a header alone, or empty output) is not fatal:
\* after it the event loop is still running and the poller is where it was.
C15_Step ==
  detail' # detail =>
    /\ HasRows(detail'[2]) =>
         /\ get_job_details(detail'[2]) = FirstRecord(detail'[2])
         /\ widget = top =>
              widget' \in {InfoBox(FirstRecord(detail'[2])),
                           TailBox(FirstRecord(detail'[2])[<<"STDOUT">>])}
    /\ NoRows(detail'[2]) =>
         /\ pc'[Main] = "idle"
         /\ pc'[Poller] = pc[Poller]

C15_NoRowsIsNotFatal == [][C15_Step]_vars

(***************************************************************************)
(* The dashboard started with no squeue options, one job selected at a     *)
(* time: the selection and the cancel loop next to the poller, the manual  *)
(* refresh, the two views, the search box and the two filter toggles.      *)
(***************************************************************************)
InitDash == Init /\ squeue_getopts = <<>>

NextDash ==
  \/ \E job \in RowJobIds : selected_jobs \subseteq {job} /\ ToggleSelected(job)
  \/ KeyBackspace
  \/ KeyC
  \/ _return_to_top
  \/ clear_selection
  \/ cancel_selected_jobs
  \/ CancelJob
  \/ PollerGetJobs
  \/ PollerSleep
  \/ ManualPoll
  \/ \E v \in {"squeue", "sinfo"} : _set_view(v)
  \/ \E s \in SearchTexts : update_filter_str(s)
  \/ InLoop /\ KeyM
  \/ InLoop /\ KeyR

SpecDash == InitDash /\ [][NextDash]_vars

\* The job ids of the snapshot on display, whatever the search text.
SnapshotIds ==
  {heap[jobs].jobs[k][<<"JOBID">>] :
     k \in {n \in 1..Len(heap[jobs].jobs) : <<"JOBID">> \in DOMAIN heap[jobs].jobs[n]}}

\* The step toggles the selection of a job on a row.
TogglesOne ==
  /\ widget = top
  /\ \E job \in RowJobIds :
       selected_jobs' = IF job \in selected_jobs THEN selected_jobs \ {job}
                        ELSE selected_jobs \cup {job}

\* The step is the "Yes" of the clear prompt.
ClearsConfirmed ==
  /\ widget = YesNoPrompt("clear_selection")
  /\ selected_jobs' = {}

\* The step is a run of scancel on a job that wrote nothing to stderr, and
\* takes that job out.
CancelsOne ==
  /\ cancel_pc = "loop"
  /\ Len(calls') = Len(calls) + 1
  /\ calls'[Len(calls')][2].started
  /\ calls'[Len(calls')][2].stderr = <<>>
  /\ selected_jobs' = selected_jobs \ {calls'[Len(calls')][1]}

\* The step is a refresh of the jobs or of the nodes, a change of the search
\* text or of a squeue filter, or a change of view.
RefreshOrFilter ==
  \/ <<jobs, squeue_header, heap, sinfo, sinfo_header>>' #
       <<jobs, squeue_header, heap, sinfo, sinfo_header>>
  \/ polls' # polls
  \/ events' # events
  \/ filter_str' # filter_str
  \/ squeue_getopts' # squeue_getopts
  \/ view' # view

C16_Step ==
  /\ selected_jobs' # selected_jobs => TogglesOne \/ ClearsConfirmed \/ CancelsOne
  /\ RefreshOrFilter => selected_jobs' = selected_jobs

\* C16: the selection changes only when a job's selection is toggled, when
\* a clear is confirmed, and when scancel on a selected job succeeds (that
\* job leaves it); no refresh of jobs or nodes, by the poller or on demand,
\* and no change of filter changes it, so a selected id that the snapshots
\* no longer hold stays selected.
C16_SelectionFrame == [][C16_Step]_vars

\* A job is selected that the snapshot of a later refresh does not hold.
C16_Witness ==
  /\ polls + events > 0
  /\ \E job \in selected_jobs : job \notin SnapshotIds

(***************************************************************************)
(* The overlays: the prompts, the cancel loop, the detail box and the tail *)
(* box with its alarm, in any order of keys, clicks and alarms.            *)
(***************************************************************************)
NextTail ==
  \/ NextCancel
  \/ \E job \in RowJobIds : _inspect_detail(job)
  \/ \E job \in RowJobIds : _inspect_tail(job)
  \/ _tail_refresh

SpecTail == Init /\ [][NextTail]_vars

\* C22: a _tail_refresh alarm is pending only while the tail box is the
\* widget on display, and _tail_refresh never runs against another widget.
C22_TailAlarmOnlyUnderTailBox ==
  /\ tail_alarms > 0 => widget.kind = "tail"
  /\ err[Main] # "AttributeError"

(***************************************************************************)
(* The footer's checkboxes and the option mapping, from every way the      *)
(* dashboard is configured; the poller refreshes meanwhile.                *)
(***************************************************************************)
\* Tui.build_footstr: "My Jobs" starts checked when my_jobs_first is set,
\* "Running" starts unchecked.
build_footstr(my_jobs_first) ==
  [built |-> TRUE, checked |-> IF my_jobs_first THEN {"My Jobs"} ELSE {}]

\* CheckBox.toggle_state
toggle_state(boxes, label) ==
  [boxes EXCEPT !.checked = IF label \in @ THEN @ \ {label} ELSE @ \cup {label}]

InitFoot ==
  /\ CoreInit
  /\ ConfigDefault
  /\ SelectInit
  /\ FnIdle
  /\ \E conf \in ConfigGetopts, my_jobs_first \in BOOLEAN :
       /\ squeue_getopts = IF my_jobs_first THEN toggle_user_filter(conf) ELSE conf
       /\ footer = build_footstr(my_jobs_first)
  /\ alarms = 1
  /\ tail_handle = None
  /\ tail_alarms = 0

\* "m", or a click on "My Jobs": the checkbox changes state and its change
\* signal calls Inspector.toggle_user_filter.
_toggle_my_jobs ==
  /\ InLoop
  /\ Handle
  /\ footer' = toggle_state(footer, "My Jobs")
  /\ squeue_getopts' = toggle_user_filter(squeue_getopts)
  /\ toggles' = Append(toggles, "user")
  /\ UNCHANGED <<jobs, squeue_header, sinfo, sinfo_header, heap, stop_event, view,
                 pc, cmd, it, res, err, r_jobs, r_idx, r_hdr, r_snap, r_seen,
                 it_maps, sleeps, polled>>
  /\ UNCHANGED <<alarms, tail_handle, tail_alarms>>
  /\ UNCHANGED <<configVars, selectVars, parseVars, argv>>

\* "r", or a click on "Running": likewise Inspector.toggle_running_filter.
_toggle_running_jobs ==
  /\ InLoop
  /\ Handle
  /\ footer' = toggle_state(footer, "Running")
  /\ squeue_getopts' = toggle_running_filter(squeue_getopts)
  /\ toggles' = Append(toggles, "running")
  /\ UNCHANGED <<jobs, squeue_header, sinfo, sinfo_header, heap, stop_event, view,
                 pc, cmd, it, res, err, r_jobs, r_idx, r_hdr, r_snap, r_seen,
                 it_maps, sleeps, polled>>
  /\ UNCHANGED <<alarms, tail_handle, tail_alarms>>
  /\ UNCHANGED <<configVars, selectVars, parseVars, argv>>

NextFoot ==
  \/ _toggle_my_jobs
  \/ _toggle_running_jobs
  \/ PollerGetJobs
  \/ PollerSleep
  \/ ManualPoll

SpecFoot == InitFoot /\ [][NextFoot]_vars

\* C23: whatever option mapping and my_jobs_first the dashboard was started
\* with, "My Jobs" is checked exactly when squeue_getopts has the key "-u",
\* and "Running" exactly when it has the key "--state".
C23_CheckboxesShowFilters ==
  footer.built =>
     /\ "My Jobs" \in footer.checked <=> "-u" \in Keys(squeue_getopts)
     /\ "Running" \in footer.checked <=> "--state" \in Keys(squeue_getopts)

(***************************************************************************)
(* Properties of the confirmation prompts                                  *)
(***************************************************************************)
C24_Shown ==
  widget = YesNoPrompt("cancel_selected_jobs") => selected_jobs # {}

C24_Step ==
  /\ (cancel_pc # "loop" /\ cancel_pc' = "loop") =>
        widget = YesNoPrompt("cancel_selected_jobs")
  /\ Len(calls') > Len(calls) => cancel_pc = "loop"
  /\ (selected_jobs' # selected_jobs /\ widget # top /\ cancel_pc # "loop") =>
        /\ widget = YesNoPrompt("clear_selection")
        /\ selected_jobs' = {}
  /\ _return_to_top =>
        /\ calls' = calls
        /\ selected_jobs' = selected_jobs
        /\ cancel_pc' = "idle"
  /\ (widget' # widget /\ widget' = YesNoPrompt("cancel_selected_jobs")) =>
        selected_jobs # {}

\* C24: scancel runs only in the loop that "Yes" of the cancel prompt
\* starts, and the selection is emptied at once only by "Yes" of the clear
\* prompt; "No" runs nothing and leaves the selection as it is; and the
\* cancel prompt is put up only over a selection that is not empty.
C24_OnlyAfterYes == []C24_Shown /\ [][C24_Step]_vars

\* After a cancel whose scancel failed, the clear prompt is up over the
\* job that is still selected.
C24_Witness ==
  /\ cancel_pc = "idle"
  /\ Len(calls) > 0
  /\ selected_jobs # {}
  /\ widget = YesNoPrompt("clear_selection")

(***************************************************************************)
(* The update_top alarm: its firing, the manual poll that replaces it, the *)
(* handlers that redraw without it, and quit; the poller refreshes         *)
(* meanwhile.                                                              *)
(***************************************************************************)
NextAlarm ==
  \/ update_top
  \/ ManualPoll
  \/ \E v \in {"squeue", "sinfo"} : _set_view(v)
  \/ \E s \in SearchTexts : update_filter_str(s)
  \/ _urwid_quit
  \/ PollerGetJobs
  \/ PollerSleep

SpecAlarm == Init /\ [][NextAlarm]_vars

\* C25: while the main loop runs, between any two of its handlers exactly
\* one update_top alarm is pending, whatever alarms have fired and whatever
\* manual polls were made; after quit none is.
C25_OneRedrawAlarm ==
  /\ pc[Main] = "idle" => alarms = 1
  /\ pc[Main] = "exited" => alarms = 0

\* Two events have been handled, a manual poll that replaced the job list
\* among them, and the loop is running.
C25_Witness ==
  /\ pc[Main] = "idle"
  /\ events = MaxEvents
  /\ polls = 0
  /\ jobs # ObjOrder[1]
  /\ alarms = 1

(***************************************************************************)
(* Properties of what the poller writes                                    *)
(***************************************************************************)
\* The step is the poller's: a pass of its loop, or the end of its sleep.
PollerStep == polls' # polls \/ sleeps' # sleeps

C26_Step ==
  /\ PollerStep =>
        /\ sinfo' = sinfo
        /\ sinfo_header' = sinfo_header
        /\ squeue_getopts' = squeue_getopts
        /\ sinfo_getopts' = sinfo_getopts
        /\ selected_jobs' = selected_jobs
        /\ <<view, filter_str, widget>>' = <<view, filter_str, widget>>
  /\ <<sinfo, sinfo_header>>' # <<sinfo, sinfo_header>> =>
        /\ ~PollerStep
        /\ view = "sinfo"
        /\ events' = events + 1

\* C26: a pass of the poller writes the job list and the job header only:
\* it leaves the node list, the node header, both option mappings and the
\* selection as they are; after construction the node list and header are
\* replaced only by a manual poll made in the sinfo view.
C26_PollerWritesJobsOnly == [][C26_Step]_vars

\* The poller has made its passes over a dashboard with a job selected
\* whose node list a manual poll has replaced.
C26_Witness ==
  /\ polls = MaxPolls
  /\ jobs # ObjOrder[1]
  /\ selected_jobs # {}
  /\ sinfo # parse_sinfo_output(InfoA).strs

(***************************************************************************)
(* The "d" and "t" keys over whatever list the search text leaves: a row   *)
(* has the focus, or the list is empty.                                    *)
(***************************************************************************)
\* "d" or "t" in the squeue view when the list has no row: the focus of an
\* empty list walker is None, and body[current_focus] raises before
\* get_job_details is called.
focus_row_fails ==
  /\ InLoop
  /\ Handle
  /\ view = "squeue"
  /\ RowJobIds = {}
  /\ \E e \in {"TypeError", "IndexError"} : Raised(Main, e)
  /\ UNCHANGED <<squeue_getopts, heap, stop_event, view, res, r_jobs, r_idx, r_hdr,
                 r_snap, r_seen, it_maps, sleeps, polled>>
  /\ UNCHANGED <<configVars, selectVars, fnVars, uiVars>>

NextFocus ==
  \/ NextDetail
  \/ \E s \in SearchTexts : update_filter_str(s)
  \/ focus_row_fails

SpecFocus == Init /\ [][NextFocus]_vars

C27_Step ==
  (events' # events /\ view = "squeue" /\ RowJobIds = {} /\ filter_str' = filter_str) =>
     /\ detail' = detail
     /\ widget' = widget
     /\ err' = err
     /\ pc' = pc
     /\ <<jobs, squeue_header, sinfo, sinfo_header, selected_jobs>>' =
          <<jobs, squeue_header, sinfo, sinfo_header, selected_jobs>>

\* C27: a key handled in the squeue view while its list shows no row, "d"
\* and "t" among them, runs no detail query, opens no box, raises nothing
\* and leaves the dashboard as it was.
C27_NoRowNoEffect == [][C27_Step]_vars

(***************************************************************************)
(* Properties of the footer's counter                                      *)
(***************************************************************************)
\* C28: after a toggle, after a confirmed clear, after every run of scancel
\* in a cancel, failed or not, the number in the footer's "[n] Selected"
\* is the size of the selection.
C28_CounterShowsSelection == job_counter = Cardinality(selected_jobs)

\* A cancel of two jobs is over: scancel failed on one, which is still
\* selected, and the other was removed.
C28_Witness ==
  /\ cancel_pc = "idle"
  /\ Len(calls) = 2
  /\ Cardinality(selected_jobs) = 1
  /\ selected_jobs \subseteq cancel_set
  /\ widget.kind = "error"

====
